---------------------------- MODULE Spec2Model ----------------------------
(***************************************************************************)
(* A model of oairouter: the backend registry (backend table and model     *)
(* index), the first-healthy and session-affinity lookups with their       *)
(* FNV-1a hash, the health bit of the backend handles, and the relay of a  *)
(* streaming response (the producer goroutine of streamRequest, its event  *)
(* channel, and the router's streaming handlers with their SSE writer).    *)
(*                                                                         *)
(* The registry serialises its operations with one reader-writer lock that *)
(* each operation holds from entry to return, so every registry operation  *)
(* is one action here.  The producer and the handler of a stream run       *)
(* concurrently and meet at the channel only, so each is a sequence of     *)
(* actions that end at its channel operations.                             *)
(*                                                                         *)
(* The router's lifecycle is the Start call, the Stop call, one            *)
(* watchEvents goroutine per discoverer and the healthCheckLoop goroutine; *)
(* they run next to each other and each is a sequence of actions that end  *)
(* at its blocking calls, at its select and at the registry's lock.        *)
(***************************************************************************)
EXTENDS Integers, Sequences, FiniteSets, TLC

(***************************************************************************)
(* Bounds of the model.                                                    *)
(***************************************************************************)

\* Backend ids, listed in ascending string order ("a" < "b" < "c").
IDOrder == <<"a", "b", "c">>

BackendIDs == {IDOrder[i] : i \in 1..Len(IDOrder)}

\* Model ids the upstream servers can advertise, in the order in which an
\* upstream lists them.
ModelOrder == <<"m1", "m2">>

ModelIDs == {ModelOrder[i] : i \in 1..Len(ModelOrder)}

\* A model id that no upstream ever advertises.
NoSuchModel == "nonexistent-model"

\* Session ids are byte strings over SessionBytes of at most MaxSessionLen bytes.
SessionBytes == {97, 98}

MaxSessionLen == 2

RECURSIVE SeqsUpTo(_, _)
SeqsUpTo(S, n) ==
    IF n = 0 THEN {<<>>}
    ELSE LET shorter == SeqsUpTo(S, n - 1)
         IN  shorter \cup {Append(q, x) : q \in shorter, x \in S}

SessionIDs == SeqsUpTo(SessionBytes, MaxSessionLen)

\* The model lists a /v1/models fetch can return: any selection of the
\* model ids, duplicate-free and in upstream order.
ModelLists == {SelectSeq(ModelOrder, LAMBDA m : m \in S) : S \in SUBSET ModelIDs}

\* The outcome of one Backend.Models call: an error, or a model list.
FetchResults == {[ok |-> FALSE, models |-> <<>>]}
                  \cup {[ok |-> TRUE, models |-> L] : L \in ModelLists}

(***************************************************************************)
(* State.                                                                  *)
(***************************************************************************)
VARIABLES
    backends,      \* BackendRegistry.backends: id -> handle (its health bit)
    models,        \* BackendRegistry.models: model id -> sequence of backend ids
    unregistered,  \* history: ids unregistered and not registered again since
    last,          \* the call made last and what it returned
    heal,          \* history: the session lookup whose backend is being followed
    sessionAffinity, \* Router.sessionAffinity
    defaultBackend,  \* Router.defaultBackend
    req,           \* the API request handleAPIRequest is serving, and its response
    mu,            \* BackendRegistry.mu: the writer, the readers, the blocked readers
    calls,         \* per goroutine, the registry call it is in
    fetchedOK,     \* history: per backend, the models its last fetch under the lock returned
    handler,       \* the streaming handler that serves the request
    flusher,       \* whether the handler's ResponseWriter is an http.Flusher
    hpc,           \* where the handler is
    response,      \* what the handler has put on the response so far (a set)
    streamEnded,   \* handleStream's local streamEnded
    streamCalls,   \* history: calls of the backend's stream method
    writes,        \* history: the handler's SSE writes and whether they succeeded
    clientUp,      \* whether writes to the client still succeed
    ppc,           \* where the producer goroutine of streamRequest is
    pending,       \* the event the producer is about to send
    events,        \* the buffered event channel
    closed,        \* whether the event channel is closed
    bodyClosed,    \* how often the producer has closed resp.Body
    cancelled,     \* whether the request context is done
    lines,         \* history: the upstream lines read so far
    sent,          \* history: the events sent on the channel
    cause,         \* history: why the producer left its loop
    started,       \* Router.started
    gen,           \* how many child contexts Start has derived so far
    rcancel,       \* Router.cancel: 0 is nil, n cancels the n-th child context
    ctxDone,       \* the child contexts that are cancelled
    wg,            \* the counter of Router.wg
    spc,           \* where the Start call in progress is
    sd,            \* the discoverer the Start call is at (index in r.discoverers)
    sfound,        \* the discovered backends the Start call has yet to register
    tpc,           \* where the Stop call in progress is
    watcher,       \* per discoverer, the state of its watchEvents goroutine
    wchan,         \* per discoverer, the events waiting in its Watch channel
    wclosed,       \* per discoverer, whether its Watch channel is closed
    hloop,         \* the state of the healthCheckLoop goroutine
    hsnap,         \* the handles of the tick's snapshot that are yet to be probed
    hstale,        \* those of hsnap that the table no longer holds
    ret,           \* history: the Start or Stop call that returned last
    dlog           \* history: per discoverer, what the Start in progress got from it

\* The registry and the caller's view of it.
regVars == <<backends, models, unregistered, last>>

\* One streaming request: handler, producer goroutine, channel and client.
streamVars == <<handler, flusher, hpc, response, streamEnded, streamCalls, writes, clientUp,
                ppc, pending, events, closed, bodyClosed, cancelled, lines, sent,
                cause>>

\* The router's lifecycle: Start, Stop and the goroutines they govern.
routerVars == <<started, gen, rcancel, ctxDone, wg, spc, sd, sfound, tpc,
                watcher, wchan, wclosed, hloop, hsnap, hstale, ret, dlog>>

\* The router's routing options and the API request being served.
reqVars == <<sessionAffinity, defaultBackend, req>>

\* The registry's lock and the calls that take it step by step.
lockVars == <<mu, calls, fetchedOK>>

vars == <<regVars, heal, reqVars, lockVars, streamVars, routerVars>>

Range(q) == {q[i] : i \in 1..Len(q)}

\* The empty map.
EmptyMap == [x \in {} |-> <<>>]

\* What `last` holds when no call is outstanding.
NoCall == [op |-> "none", model |-> "", session |-> <<>>, id |-> "",
           ok |-> FALSE, backend |-> "", broken |-> FALSE,
           existed |-> FALSE, fetched |-> <<>>, count |-> 0, index |-> 0]

(***************************************************************************)
(* hashSessionToIndex: 32-bit FNV-1a of the session id's bytes, modulo     *)
(* count.  The 32-bit state is kept as two 16-bit halves so that no        *)
(* intermediate product exceeds 31 bits.                                   *)
(***************************************************************************)
RECURSIVE Xor(_, _, _)
\* Bitwise exclusive or of the `bits` low bits of x and y.
Xor(x, y, bits) ==
    IF bits = 0 THEN 0
    ELSE (((x % 2) + (y % 2)) % 2) + (2 * Xor(x \div 2, y \div 2, bits - 1))

\* FNV offset basis 0x811c9dc5 as (high half, low half).
FnvOffset32 == [hi |-> 33052, lo |-> 40389]

\* Mutant of FnvRound: the FNV-1 order, multiply first and xor after.
FnvRound_MultiplyFirst(h, byte) ==
    LET prod == h.lo * 403
        lo   == prod % 65536
    IN  [lo |-> (lo - (lo % 256)) + Xor(lo % 256, byte, 8),
         hi |-> ((h.hi * 403) + (prod \div 65536) + ((h.lo % 256) * 256)) % 65536]

\* One FNV-1a round: h ^= byte; h *= 0x01000193 (= 2^24 + 403) modulo 2^32.
FnvRound(h, byte) ==
    LET low  == (h.lo - (h.lo % 256)) + Xor(h.lo % 256, byte, 8)
        prod == low * 403
    IN  [lo |-> prod % 65536,
         hi |-> ((h.hi * 403) + (prod \div 65536) + ((low % 256) * 256)) % 65536]

RECURSIVE Fnv1a32(_)
Fnv1a32(s) ==
    IF s = <<>> THEN FnvOffset32
    ELSE FnvRound(Fnv1a32(SubSeq(s, 1, Len(s) - 1)), s[Len(s)])

\* h.Sum32() % uint32(count), for count >= 1.
hashSessionToIndex(sessionID, count) ==
    LET h == Fnv1a32(sessionID)
    IN  (((h.hi % count) * (65536 % count)) + h.lo) % count

(***************************************************************************)
(* Model index helpers.                                                    *)
(***************************************************************************)

\* Mutant of addModelMapping: the id is appended without the look for it.
addModelMapping_AlwaysAppends(idx, modelID, backendID) ==
    [m \in DOMAIN idx \cup {modelID} |->
        IF m = modelID
        THEN Append(IF m \in DOMAIN idx THEN idx[m] ELSE <<>>, backendID)
        ELSE idx[m]]

\* addModelMapping: append backendID to the model's sequence unless present.
addModelMapping(idx, modelID, backendID) ==
    IF modelID \in DOMAIN idx
    THEN IF backendID \in Range(idx[modelID])
         THEN idx
         ELSE [idx EXCEPT ![modelID] = Append(@, backendID)]
    ELSE [m \in DOMAIN idx \cup {modelID} |->
            IF m = modelID THEN <<backendID>> ELSE idx[m]]

RECURSIVE IndexModels(_, _, _)
\* for _, model := range models { r.addModelMapping(model.ID, id) }
IndexModels(idx, fetched, id) ==
    IF fetched = <<>> THEN idx
    ELSE IndexModels(addModelMapping(idx, Head(fetched), id), Tail(fetched), id)

\* Mutant of PruneMappings: a sequence is deleted when at most one id is
\* left in it.
PruneMappings_DropsSingles(idx, id) ==
    LET filtered(m) == SelectSeq(idx[m], LAMBDA bid : bid # id)
    IN  [m \in {x \in DOMAIN idx : Len(filtered(x)) > 1} |-> filtered(m)]

\* Mutant of PruneMappings: the ids that stay are put back in front of each
\* other.
PruneMappings_Reverses(idx, id) ==
    LET filtered(m) == SelectSeq(idx[m], LAMBDA bid : bid # id)
        reversed(q) == [i \in 1..Len(q) |-> q[(Len(q) + 1) - i]]
    IN  [m \in {x \in DOMAIN idx : filtered(x) # <<>>} |-> reversed(filtered(m))]

\* Mutant of PruneMappings: the filter loop is left out.
PruneMappings_Skipped(idx, id) == idx

\* The filter loop of Unregister and RefreshModels: drop id from every
\* sequence and delete the sequences that become empty.
PruneMappings(idx, id) ==
    LET filtered(m) == SelectSeq(idx[m], LAMBDA bid : bid # id)
    IN  [m \in {x \in DOMAIN idx : filtered(x) # <<>>} |-> filtered(m)]

(***************************************************************************)
(* Registry mutations.                                                     *)
(***************************************************************************)

\* The backend table after r.backends[b.ID()] = b.
PutBackend(tbl, id, healthy) ==
    [x \in DOMAIN tbl \cup {id} |->
        IF x = id THEN [healthy |-> healthy] ELSE tbl[x]]

\* The model index Register leaves behind.
RegisterIndex(idx, id, fetch) ==
    IF fetch.ok THEN IndexModels(idx, fetch.models, id) ELSE idx

\* Register(ctx, b): b has id `id` and health bit `healthy`; its Models call
\* returns `fetch`.
Register(id, healthy, fetch) ==
    /\ last.op = "none"
    /\ backends' = PutBackend(backends, id, healthy)
    /\ models' = RegisterIndex(models, id, fetch)
    /\ unregistered' = unregistered \ {id}
    /\ last' = [NoCall EXCEPT !.op = "Register", !.id = id, !.ok = fetch.ok,
                              !.existed = (id \in DOMAIN backends),
                              !.fetched = fetch.models]

\* Mutant of DeleteBackend: the delete is left out.
DeleteBackend_Skipped(tbl, id) == tbl

\* The backend table after delete(r.backends, id).
DeleteBackend(tbl, id) == [x \in DOMAIN tbl \ {id} |-> tbl[x]]

\* Unregister(id).
Unregister(id) ==
    /\ last.op = "none"
    /\ backends' = DeleteBackend(backends, id)
    /\ models' = PruneMappings(models, id)
    /\ unregistered' = unregistered \cup {id}
    /\ last' = [NoCall EXCEPT !.op = "Unregister", !.id = id,
                              !.existed = (id \in DOMAIN backends)]

\* Mutant of RefreshIndex: the old mappings go only once the fetch has
\* succeeded.
RefreshIndex_KeepsOnFailure(idx, backendID, fetch) ==
    IF fetch.ok
    THEN IndexModels(PruneMappings(idx, backendID), fetch.models, backendID)
    ELSE idx

\* The model index RefreshModels leaves behind for a registered backend:
\* the old mappings go first, whatever the fetch returns.
RefreshIndex(idx, backendID, fetch) ==
    IF fetch.ok
    THEN IndexModels(PruneMappings(idx, backendID), fetch.models, backendID)
    ELSE PruneMappings(idx, backendID)

\* RefreshModels(ctx, backendID); `ok` is whether it returned nil.
RefreshModels(backendID, fetch) ==
    /\ last.op = "none"
    /\ models' = IF backendID \in DOMAIN backends
                 THEN RefreshIndex(models, backendID, fetch)
                 ELSE models
    /\ last' = [NoCall EXCEPT !.op = "RefreshModels", !.id = backendID,
                              !.ok = (backendID \in DOMAIN backends /\ fetch.ok),
                              !.existed = (backendID \in DOMAIN backends),
                              !.fetched = IF backendID \in DOMAIN backends
                                          THEN fetch.models ELSE <<>>]
    /\ UNCHANGED <<backends, unregistered>>

\* The orders in which a range over a Go map with key set S can visit it.
MapOrders(S) ==
    {q \in [1..Cardinality(S) -> S] : \A i, j \in 1..Cardinality(S) : i # j => q[i] # q[j]}

RECURSIVE AppendUnseen(_, _)
\* if !seen[model.ID] { seen[model.ID] = true; allModels = append(...) }
AppendUnseen(allModels, fetched) ==
    IF fetched = <<>> THEN allModels
    ELSE AppendUnseen(IF Head(fetched) \in Range(allModels)
                      THEN allModels
                      ELSE Append(allModels, Head(fetched)),
                      Tail(fetched))

RECURSIVE AllModelsLoop(_, _, _, _)
\* The loop of AllModels over the backends in the order `order`, where
\* fetches[b] is what b's Models call returns: the index and the list returned.
AllModelsLoop(idx, allModels, order, fetches) ==
    IF order = <<>> THEN [idx |-> idx, allModels |-> allModels]
    ELSE LET b == Head(order)
         IN  IF ~fetches[b].ok
             THEN AllModelsLoop(idx, allModels, Tail(order), fetches)
             ELSE AllModelsLoop(IndexModels(idx, fetches[b].models, b),
                                AppendUnseen(allModels, fetches[b].models),
                                Tail(order), fetches)

\* AllModels(ctx), visiting the backend table in the order `order`.
AllModels(order, fetches) ==
    /\ LET out == AllModelsLoop(models, <<>>, order, fetches)
       IN  /\ models' = out.idx
           /\ last' = [NoCall EXCEPT !.op = "AllModels", !.fetched = out.allModels]
    /\ UNCHANGED <<backends, unregistered>>

CallAllModels ==
    /\ last.op = "none"
    /\ \E order \in MapOrders(DOMAIN backends),
          fetches \in [DOMAIN backends -> FetchResults] : AllModels(order, fetches)

(***************************************************************************)
(* Backend handle: the health bit.                                         *)
(***************************************************************************)

\* Mutant of setHealthy: a bit that is down is never set again.
setHealthy_NeverRestores(handle, healthy) ==
    [handle EXCEPT !.healthy = @ /\ healthy]

\* The handle after HealthCheck: setHealthy(err == nil).
setHealthy(handle, healthy) == [handle EXCEPT !.healthy = healthy]

\* HealthCheck(ctx) on the handle registered as id; probeOK is whether its
\* Models probe succeeded.
HealthCheck(id, probeOK) ==
    /\ last.op = "none"
    /\ id \in DOMAIN backends
    /\ backends' = [backends EXCEPT ![id] = setHealthy(@, probeOK)]
    /\ last' = [NoCall EXCEPT !.op = "HealthCheck", !.id = id, !.ok = probeOK]
    /\ UNCHANGED <<models, unregistered>>

\* The calls of a backend handle other than HealthCheck.
BackendCalls == {"Models", "ChatCompletion", "ChatCompletionStream",
                 "Completion", "CompletionStream", "Embeddings"}

\* Mutant of AfterCall: a failed call marks the backend unhealthy.
AfterCall_MarksDown(handle, ok) ==
    IF ok THEN handle ELSE setHealthy(handle, FALSE)

\* The handle after one of BackendCalls, whether it failed or not: none of
\* them writes b.healthy.
AfterCall(handle, ok) == handle

\* One of BackendCalls on the handle registered as id, as the router's
\* handlers make it; ok is whether it returned without error (otherwise the
\* handler answers 500).
BackendCall(call, id, ok) ==
    /\ last.op = "none"
    /\ id \in DOMAIN backends
    /\ backends' = [backends EXCEPT ![id] = AfterCall(@, ok)]
    /\ last' = [NoCall EXCEPT !.op = call, !.id = id, !.ok = ok]
    /\ UNCHANGED <<models, unregistered>>

(***************************************************************************)
(* Lookups.                                                                *)
(***************************************************************************)

\* A lookup that found nothing, and one that found backend b.
NotFound == [ok |-> FALSE, backend |-> "", broken |-> FALSE]

Found(b, sessionBroken) == [ok |-> TRUE, backend |-> b, broken |-> sessionBroken]

\* Mutant of BackendIDsOf: a model without an entry is served by the
\* backends of some indexed model.
BackendIDsOf_AnyModel(idx, modelID) ==
    IF modelID \in DOMAIN idx THEN idx[modelID]
    ELSE IF DOMAIN idx # {} THEN idx[CHOOSE m \in DOMAIN idx : TRUE]
    ELSE <<>>

\* r.models[modelID], the empty sequence when the key is absent.
BackendIDsOf(idx, modelID) ==
    IF modelID \in DOMAIN idx THEN idx[modelID] ELSE <<>>

\* backend, ok := r.backends[bid]; ok && backend.IsHealthy()
IsHealthyIn(tbl, bid) == bid \in DOMAIN tbl /\ tbl[bid].healthy

\* Mutant of FirstHealthy: the health bits are not looked at.
FirstHealthy_IgnoresHealth(tbl, backendIDs) ==
    IF backendIDs[1] \in DOMAIN tbl THEN Found(backendIDs[1], FALSE) ELSE NotFound

\* The scan of LookupByModel over a non-empty id sequence.
FirstHealthy(tbl, backendIDs) ==
    LET hits == {i \in 1..Len(backendIDs) : IsHealthyIn(tbl, backendIDs[i])}
    IN  IF hits # {}
        THEN Found(backendIDs[CHOOSE i \in hits : \A j \in hits : i <= j], FALSE)
        ELSE IF backendIDs[1] \in DOMAIN tbl
             THEN Found(backendIDs[1], FALSE)
             ELSE NotFound

\* LookupByModel(modelID).
LookupByModel(tbl, idx, modelID) ==
    LET backendIDs == BackendIDsOf(idx, modelID)
    IN  IF backendIDs = <<>> THEN NotFound ELSE FirstHealthy(tbl, backendIDs)

\* Mutant of FirstHealthyNoSession: without a healthy backend it finds none.
FirstHealthyNoSession_NoFallback(tbl, backendIDs) ==
    LET hits == {i \in 1..Len(backendIDs) : IsHealthyIn(tbl, backendIDs[i])}
    IN  IF hits # {}
        THEN Found(backendIDs[CHOOSE i \in hits : \A j \in hits : i <= j], FALSE)
        ELSE NotFound

\* The scan LookupByModelWithSession makes itself when sessionID == "".
FirstHealthyNoSession(tbl, backendIDs) ==
    LET hits == {i \in 1..Len(backendIDs) : IsHealthyIn(tbl, backendIDs[i])}
    IN  IF hits # {}
        THEN Found(backendIDs[CHOOSE i \in hits : \A j \in hits : i <= j], FALSE)
        ELSE IF backendIDs[1] \in DOMAIN tbl
             THEN Found(backendIDs[1], FALSE)
             ELSE NotFound

\* The position of an id in ascending string order.
IDRank(id) == CHOOSE i \in 1..Len(IDOrder) : IDOrder[i] = id

\* allBackends[i].ID() < allBackends[j].ID()
IDLess(x, y) == IDRank(x) < IDRank(y)

\* The rearrangements of q.
Rearrangements(q) ==
    {[i \in 1..Len(q) |-> q[f[i]]] : f \in MapOrders(1..Len(q))}

\* Mutant of SortByID: the slice is left in insertion order.
SortByID_Unsorted(q) == {q}

\* Mutant of SortByID: the slice comes in the order of a range over a map.
SortByID_MapOrder(q) == Rearrangements(q)

\* Mutant of SortByID: the first element stays where it is.
SortByID_TailOnly(q) ==
    {p \in Rearrangements(q) :
        /\ q # <<>> => p[1] = q[1]
        /\ \A i, j \in 2..Len(p) : i < j => ~IDLess(p[j], p[i])}

\* What sort.Slice by ID can leave: sort.Slice is not stable, so any
\* rearrangement in which no element precedes a smaller one.
SortByID(q) ==
    {p \in Rearrangements(q) : \A i, j \in 1..Len(p) : i < j => ~IDLess(p[j], p[i])}

\* Mutant of SessionPick: the hash chooses among the healthy backends
\* whenever there is one.
SessionPick_HashOverHealthy(tbl, allBackends, healthyBackends, sessionID) ==
    IF Len(healthyBackends) > 0
    THEN Found(healthyBackends[
                 hashSessionToIndex(sessionID, Len(healthyBackends)) + 1], FALSE)
    ELSE Found(allBackends[hashSessionToIndex(sessionID, Len(allBackends)) + 1],
               TRUE)

\* Mutant of SessionPick: the fallback is always the first healthy backend.
SessionPick_FallbackFirst(tbl, allBackends, healthyBackends, sessionID) ==
    LET preferredBackend ==
            allBackends[hashSessionToIndex(sessionID, Len(allBackends)) + 1]
    IN  IF tbl[preferredBackend].healthy
        THEN Found(preferredBackend, FALSE)
        ELSE IF Len(healthyBackends) > 0
             THEN Found(healthyBackends[1], TRUE)
             ELSE Found(preferredBackend, TRUE)

\* Mutant of SessionPick: an unhealthy preferred backend that has to be
\* returned all the same is not reported as a broken session.
SessionPick_UnbrokenWhenAllDown(tbl, allBackends, healthyBackends, sessionID) ==
    LET preferredBackend ==
            allBackends[hashSessionToIndex(sessionID, Len(allBackends)) + 1]
    IN  IF tbl[preferredBackend].healthy
        THEN Found(preferredBackend, FALSE)
        ELSE IF Len(healthyBackends) > 0
             THEN Found(healthyBackends[
                          hashSessionToIndex(sessionID, Len(healthyBackends)) + 1],
                        TRUE)
             ELSE Found(preferredBackend, FALSE)

\* The choice among the sorted slices, for a non-empty session id.
SessionPick(tbl, allBackends, healthyBackends, sessionID) ==
    LET preferredBackend ==
            allBackends[hashSessionToIndex(sessionID, Len(allBackends)) + 1]
    IN  IF tbl[preferredBackend].healthy
        THEN Found(preferredBackend, FALSE)
        ELSE IF Len(healthyBackends) > 0
             THEN Found(healthyBackends[
                          hashSessionToIndex(sessionID, Len(healthyBackends)) + 1],
                        TRUE)
             ELSE Found(preferredBackend, TRUE)

\* LookupByModelWithSession(modelID, sessionID): the results it can return.
LookupByModelWithSession(tbl, idx, modelID, sessionID) ==
    LET backendIDs == BackendIDsOf(idx, modelID)
        allBackends == SelectSeq(backendIDs, LAMBDA bid : bid \in DOMAIN tbl)
        healthyBackends == SelectSeq(allBackends, LAMBDA bid : tbl[bid].healthy)
    IN  IF backendIDs = <<>> THEN {NotFound}
        ELSE IF sessionID = <<>> THEN {FirstHealthyNoSession(tbl, backendIDs)}
        ELSE IF allBackends = <<>> THEN {NotFound}
        ELSE {SessionPick(tbl, sa, sh, sessionID) :
                sa \in SortByID(allBackends), sh \in SortByID(healthyBackends)}

\* LookupByID(id).
LookupByID(tbl, id) ==
    IF id \in DOMAIN tbl THEN Found(id, FALSE) ELSE NotFound

\* The model ids a caller may ask for.
LookupModels == ModelIDs \cup {NoSuchModel}

IsLookup(op) == op \in {"LookupByModel", "LookupByModelWithSession", "LookupByID"}

Response(op, modelID, sessionID, id, res) ==
    [NoCall EXCEPT !.op = op, !.model = modelID, !.session = sessionID, !.id = id,
                   !.ok = res.ok, !.backend = res.backend, !.broken = res.broken]

CallLookupByModel(modelID) ==
    /\ last.op = "none"
    /\ last' = Response("LookupByModel", modelID, <<>>, "",
                        LookupByModel(backends, models, modelID))
    /\ UNCHANGED <<backends, models, unregistered>>

\* The call is made when no response is outstanding, or again by a caller
\* that holds the response of the same call.
CallLookupByModelWithSession(modelID, sessionID) ==
    /\ \/ last.op = "none"
       \/ /\ last.op = "LookupByModelWithSession"
          /\ last.model = modelID
          /\ last.session = sessionID
    /\ \E res \in LookupByModelWithSession(backends, models, modelID, sessionID) :
          last' = Response("LookupByModelWithSession", modelID, sessionID, "", res)
    /\ UNCHANGED <<backends, models, unregistered>>

CallLookupByID(id) ==
    /\ last.op = "none"
    /\ last' = Response("LookupByID", "", <<>>, id, LookupByID(backends, id))
    /\ UNCHANGED <<backends, models, unregistered>>

\* The caller drops the response of its last call.
Release ==
    /\ last.op # "none"
    /\ last' = NoCall
    /\ UNCHANGED <<backends, models, unregistered>>

\* The session ids hashSessionToIndex is called with: the short ones and the
\* one of TestHashSessionToIndex_Deterministic, "test-session-id".
TestSessionID == <<116, 101, 115, 116, 45, 115, 101, 115, 115, 105, 111, 110, 45, 105, 100>>

HashInputs == SessionIDs \cup {TestSessionID}

\* The largest number of backends the hash is asked to choose among.
MaxCount == 16

\* A call of hashSessionToIndex; a caller may call again while it holds the
\* result of an earlier call.
CallHash(sessionID, count) ==
    /\ last.op \in {"none", "hashSessionToIndex"}
    /\ last' = [NoCall EXCEPT !.op = "hashSessionToIndex", !.session = sessionID,
                              !.count = count,
                              !.index = hashSessionToIndex(sessionID, count)]
    /\ UNCHANGED <<backends, models, unregistered>>

(***************************************************************************)
(* Following one session across health changes.                            *)
(***************************************************************************)

\* What `heal` holds when no session is followed.
NoHeal == [phase |-> "none", model |-> "", session |-> <<>>, backend |-> "",
           broken |-> FALSE]

\* A session lookup by the client that is followed.  The first lookup that
\* returns a healthy backend starts the history: the backend and the
\* SessionBroken flag it came with.
HealLookup(modelID, sessionID) ==
    /\ sessionID # <<>>
    /\ heal.phase = "none" \/ (heal.model = modelID /\ heal.session = sessionID)
    /\ CallLookupByModelWithSession(modelID, sessionID)
    /\ heal' = IF heal.phase = "none" /\ last'.ok /\ backends[last'.backend].healthy
               THEN [phase |-> "returned", model |-> modelID, session |-> sessionID,
                     backend |-> last'.backend, broken |-> last'.broken]
               ELSE heal

\* A health check; the history notes when the followed backend goes down
\* and when it is back up after having been down.
HealHealthCheck(id, probeOK) ==
    /\ HealthCheck(id, probeOK)
    /\ heal' = IF heal.phase # "none" /\ heal.backend = id
               THEN [heal EXCEPT !.phase = IF ~probeOK THEN "down"
                                           ELSE IF @ = "returned" THEN @ ELSE "up"]
               ELSE heal

\* A registration may change the membership and ends the history.
HealRegister(id, healthy, fetch) ==
    /\ Register(id, healthy, fetch)
    /\ heal' = NoHeal

HealRelease ==
    /\ Release
    /\ UNCHANGED heal

(***************************************************************************)
(* Streaming: the producer goroutine of GenericBackend.streamRequest.      *)
(***************************************************************************)

\* Capacity of the event channel (100 in streamRequest).
ChanCap == 2

\* The most lines one upstream body delivers.
MaxLines == 3

\* Upstream body lines: lead + field + value + trail, then "\n".
UpstreamLines ==
    { [lead |-> "",  field |-> "data: ",  value |-> "x",      trail |-> ""],
      [lead |-> "",  field |-> "data: ",  value |-> "y",      trail |-> " "],
      [lead |-> " ", field |-> "data: ",  value |-> "z",      trail |-> ""],
      [lead |-> "",  field |-> "data: ",  value |-> "",       trail |-> ""],
      [lead |-> "",  field |-> "data: ",  value |-> "[DONE]", trail |-> ""],
      [lead |-> "",  field |-> "event: ", value |-> "ping",   trail |-> ""],
      [lead |-> "",  field |-> "",        value |-> "",       trail |-> ""] }

\* What reader.ReadString('\n') can return: a line, io.EOF, another error.
ReadResults ==
    {[kind |-> "line", line |-> l] : l \in UpstreamLines}
        \cup {[kind |-> k, line |-> <<>>] : k \in {"EOF", "error"}}

\* strings.TrimSpace(line): the white space around the line goes, and with
\* an empty value so does the blank that ends the field name.
TrimSpace(line) ==
    [field |-> IF line.value # "" THEN line.field
               ELSE IF line.field = "data: " THEN "data:"
               ELSE IF line.field = "event: " THEN "event:"
               ELSE line.field,
     value |-> line.value]

\* line == "" || !strings.HasPrefix(line, "data: "), on the trimmed line.
Skipped(trimmed) ==
    \/ (trimmed.field = "" /\ trimmed.value = "")
    \/ trimmed.field # "data: "

\* StreamEvent values.
NoEvent == [data |-> "", done |-> FALSE, err |-> ""]

DataEvent(data) == [data |-> data, done |-> FALSE, err |-> ""]

DoneEvent == [data |-> "[DONE]", done |-> TRUE, err |-> ""]

EOFEvent == [data |-> "", done |-> TRUE, err |-> ""]

ErrEvent(err) == [data |-> "", done |-> TRUE, err |-> err]

\* Mutant of OnRead: lines without the data prefix are forwarded too.
OnRead_ForwardsAll(res) ==
    IF res.kind = "EOF"
    THEN [ppc |-> "send", pending |-> EOFEvent, cause |-> "EOF"]
    ELSE IF res.kind = "error"
    THEN [ppc |-> "send", pending |-> ErrEvent("read"), cause |-> "error"]
    ELSE LET trimmed == TrimSpace(res.line)
         IN  IF trimmed.field = "" /\ trimmed.value = ""
             THEN [ppc |-> "select", pending |-> NoEvent, cause |-> "none"]
             ELSE IF trimmed.value = "[DONE]"
             THEN [ppc |-> "send", pending |-> DoneEvent, cause |-> "[DONE]"]
             ELSE [ppc |-> "send", pending |-> DataEvent(trimmed.value),
                   cause |-> "none"]

\* The loop body after ReadString returned res: the event to send, if any,
\* and where the goroutine goes.
OnRead(res) ==
    IF res.kind = "EOF"
    THEN [ppc |-> "send", pending |-> EOFEvent, cause |-> "EOF"]
    ELSE IF res.kind = "error"
    THEN [ppc |-> "send", pending |-> ErrEvent("read"), cause |-> "error"]
    ELSE LET trimmed == TrimSpace(res.line)
         IN  IF Skipped(trimmed)
             THEN [ppc |-> "select", pending |-> NoEvent, cause |-> "none"]
             ELSE IF trimmed.value = "[DONE]"
             THEN [ppc |-> "send", pending |-> DoneEvent, cause |-> "[DONE]"]
             ELSE [ppc |-> "send", pending |-> DataEvent(trimmed.value),
                   cause |-> "none"]

\* select { case <-ctx.Done(): ...; default: } at the top of the loop.
ProducerSelect ==
    /\ ppc = "select"
    /\ IF cancelled
       THEN /\ pending' = ErrEvent("context canceled")
            /\ cause' = "cancelled"
            /\ ppc' = "send"
       ELSE /\ ppc' = "read"
            /\ UNCHANGED <<pending, cause>>
    /\ UNCHANGED <<handler, flusher, hpc, response, streamEnded, streamCalls, writes,
                   clientUp, events, closed, bodyClosed, cancelled, lines, sent>>
    /\ UNCHANGED <<regVars, heal, reqVars, lockVars, routerVars>>

\* reader.ReadString('\n') returns res, and the rest of the loop body up to
\* the send.
ProducerRead(res) ==
    /\ ppc = "read"
    /\ res.kind = "line" => Len(lines) < MaxLines
    /\ LET step == OnRead(res)
       IN  /\ ppc' = step.ppc
           /\ pending' = step.pending
           /\ cause' = step.cause
    /\ lines' = IF res.kind = "line" THEN Append(lines, res.line) ELSE lines
    /\ UNCHANGED <<handler, flusher, hpc, response, streamEnded, streamCalls, writes,
                   clientUp, events, closed, bodyClosed, cancelled, sent>>
    /\ UNCHANGED <<regVars, heal, reqVars, lockVars, routerVars>>

\* events <- pending: possible while the buffer has room.
ProducerSend ==
    /\ ppc = "send"
    /\ Len(events) < ChanCap
    /\ events' = Append(events, pending)
    /\ sent' = Append(sent, pending)
    /\ ppc' = IF pending.done THEN "exit" ELSE "select"
    /\ pending' = NoEvent
    /\ UNCHANGED <<handler, flusher, hpc, response, streamEnded, streamCalls, writes,
                   clientUp, closed, bodyClosed, cancelled, lines, cause>>
    /\ UNCHANGED <<regVars, heal, reqVars, lockVars, routerVars>>

\* The deferred calls on return: resp.Body.Close(), then close(events).
ProducerExit ==
    /\ ppc = "exit"
    /\ bodyClosed' = bodyClosed + 1
    /\ closed' = TRUE
    /\ ppc' = "done"
    /\ UNCHANGED <<handler, flusher, hpc, response, streamEnded, streamCalls, writes,
                   clientUp, pending, events, cancelled, lines, sent, cause>>
    /\ UNCHANGED <<regVars, heal, reqVars, lockVars, routerVars>>

ProducerNext ==
    \/ ProducerSelect
    \/ \E res \in ReadResults : ProducerRead(res)
    \/ ProducerSend
    \/ ProducerExit

\* The request context is cancelled while the producer runs.
Cancel ==
    /\ ppc \notin {"off", "done"}
    /\ ~cancelled
    /\ cancelled' = TRUE
    /\ UNCHANGED <<handler, flusher, hpc, response, streamEnded, streamCalls, writes,
                   clientUp, ppc, pending, events, closed, bodyClosed, lines,
                   sent, cause>>
    /\ UNCHANGED <<regVars, heal, reqVars, lockVars, routerVars>>

(***************************************************************************)
(* Streaming: the handlers of the router and the SSE writer.               *)
(***************************************************************************)

StreamHandlers == {"handleStream", "handleChatCompletionsStream"}

\* Writer.WriteData(data): the write is recorded with its outcome.
WriteData(log, data, wok) == Append(log, [data |-> data, ok |-> wok])

\* Writer.WriteDone().
WriteDone(log, wok) == WriteData(log, "[DONE]", wok)

\* Mutant of handleStreamEvent: a failed data write does not end the loop.
handleStreamEvent_IgnoresWriteError(event) ==
    IF event.err # ""
    THEN [write |-> <<>>, ended |-> FALSE, break |-> "always"]
    ELSE IF event.done
    THEN [write |-> <<"[DONE]">>, ended |-> TRUE, break |-> "always"]
    ELSE IF event.data # ""
    THEN [write |-> <<event.data>>, ended |-> FALSE, break |-> "never"]
    ELSE [write |-> <<>>, ended |-> FALSE, break |-> "never"]

\* The body of handleStream's loop for one event: what it writes, whether
\* it sets streamEnded, and when it breaks.
handleStreamEvent(event) ==
    IF event.err # ""
    THEN [write |-> <<>>, ended |-> FALSE, break |-> "always"]
    ELSE IF event.done
    THEN [write |-> <<"[DONE]">>, ended |-> TRUE, break |-> "always"]
    ELSE IF event.data # ""
    THEN [write |-> <<event.data>>, ended |-> FALSE, break |-> "on write error"]
    ELSE [write |-> <<>>, ended |-> FALSE, break |-> "never"]

\* The body of handleChatCompletionsStream's loop for one event.
handleChatCompletionsStreamEvent(event) ==
    IF event.err # ""
    THEN [write |-> <<>>, ended |-> FALSE, break |-> "always"]
    ELSE IF event.done /\ event.data = "[DONE]"
    THEN [write |-> <<"[DONE]">>, ended |-> FALSE, break |-> "always"]
    ELSE IF event.data # ""
    THEN [write |-> <<event.data>>, ended |-> FALSE, break |-> "on write error"]
    ELSE [write |-> <<>>, ended |-> FALSE, break |-> "never"]

EventStep(h, event) ==
    IF h = "handleStream" THEN handleStreamEvent(event)
    ELSE handleChatCompletionsStreamEvent(event)

\* Mutant of OpenWriter: the handler goes on without a flusher.
OpenWriter_NoCheck(canFlush) == [hpc |-> "call", response |-> {}]

\* streaming.NewWriter(w) and the nil check: without an http.Flusher the
\* handler answers 500 and returns.
OpenWriter(canFlush) ==
    IF canFlush THEN [hpc |-> "call", response |-> {}]
    ELSE [hpc |-> "returned", response |-> {"error 500"}]

\* The handler h starts: NewWriter and its nil check.
StartStream(h, canFlush) ==
    /\ hpc = "idle"
    /\ handler' = h
    /\ flusher' = canFlush
    /\ LET step == OpenWriter(canFlush)
       IN  /\ hpc' = step.hpc
           /\ response' = step.response
    /\ UNCHANGED <<streamEnded, streamCalls, writes, clientUp, ppc, pending,
                   events, closed, bodyClosed, cancelled, lines, sent, cause>>
    /\ UNCHANGED <<regVars, heal, reqVars, lockVars, routerVars>>

\* The backend's stream method is called.  streamRequest returns an error
\* when the request fails or the status is not 200; otherwise it starts the
\* producer and returns the channel, and the handler writes the SSE headers.
CallStream(callOK) ==
    /\ hpc = "call"
    /\ streamCalls' = streamCalls + 1
    /\ IF callOK
       THEN /\ ppc' = "select"
            /\ response' = response \cup {"sse headers"}
            /\ hpc' = "recv"
       ELSE /\ response' = response \cup {"error 500"}
            /\ hpc' = "returned"
            /\ UNCHANGED ppc
    /\ UNCHANGED <<handler, flusher, streamEnded, writes, clientUp, pending, events,
                   closed, bodyClosed, cancelled, lines, sent, cause>>
    /\ UNCHANGED <<regVars, heal, reqVars, lockVars, routerVars>>

\* One round of `for event := range events`: the loop ends when the channel
\* is closed and empty, otherwise the next event is handled.  wok is
\* whether a write to the client succeeds; once one has failed all do.
Receive(wok) ==
    /\ hpc = "recv"
    /\ events # <<>> \/ closed
    /\ IF events = <<>>
       THEN /\ wok = clientUp
            /\ hpc' = "after"
            /\ UNCHANGED <<events, writes, clientUp, streamEnded>>
       ELSE LET step == EventStep(handler, Head(events))
            IN  /\ events' = Tail(events)
                /\ IF step.write # <<>>
                   THEN /\ wok => clientUp
                        /\ writes' = WriteData(writes, step.write[1], wok)
                        /\ clientUp' = wok
                   ELSE /\ wok = clientUp
                        /\ UNCHANGED <<writes, clientUp>>
                /\ streamEnded' = (streamEnded \/ step.ended)
                /\ hpc' = IF \/ step.break = "always"
                             \/ (step.break = "on write error" /\ step.write # <<>> /\ ~wok)
                          THEN "after" ELSE "recv"
    /\ UNCHANGED <<handler, flusher, response, streamCalls, ppc, pending, closed,
                   bodyClosed, cancelled, lines, sent, cause>>
    /\ UNCHANGED <<regVars, heal, reqVars, lockVars, routerVars>>

\* After the loop: handleStream writes the terminator unless it has, and
\* the handler returns.
Finish(wok) ==
    /\ hpc = "after"
    /\ IF handler = "handleStream" /\ ~streamEnded
       THEN /\ wok => clientUp
            /\ writes' = WriteDone(writes, wok)
            /\ clientUp' = wok
       ELSE /\ wok = clientUp
            /\ UNCHANGED <<writes, clientUp>>
    /\ hpc' = "returned"
    /\ UNCHANGED <<handler, flusher, response, streamEnded, streamCalls, ppc, pending,
                   events, closed, bodyClosed, cancelled, lines, sent, cause>>
    /\ UNCHANGED <<regVars, heal, reqVars, lockVars, routerVars>>

HandlerNext ==
    \/ \E h \in StreamHandlers, canFlush \in BOOLEAN : StartStream(h, canFlush)
    \/ \E callOK \in BOOLEAN : CallStream(callOK)
    \/ \E wok \in BOOLEAN : Receive(wok)
    \/ \E wok \in BOOLEAN : Finish(wok)

(***************************************************************************)
(* The router's lifecycle: Start, Stop, the watchEvents goroutines and the *)
(* healthCheckLoop goroutine.  One Start body and one Stop body run at a   *)
(* time, next to each other; further Start and Stop calls are the ones     *)
(* whose compare-and-swap fails.                                           *)
(***************************************************************************)

\* r.discoverers, in the order of the options that added them.
DiscovererOrder == <<"d1", "d2">>

Discoverers == {DiscovererOrder[i] : i \in 1..Len(DiscovererOrder)}

\* How often Start derives a child context.
MaxStarts == 2

\* The buffer of a Watch channel (10 in the discoverers of the repository).
WatchCap == 2

\* What the Models call of a discovered backend returns.
RouterFetches == {[ok |-> FALSE, models |-> <<>>], [ok |-> TRUE, models |-> <<"m1">>]}

\* What an initial Discover returns: an error, or the backends found.
DiscoverResults ==
    {[ok |-> FALSE, found |-> <<>>],
     [ok |-> TRUE, found |-> <<"a">>],
     [ok |-> TRUE, found |-> <<"a", "b">>]}

\* The backends discovery events are about.
EventIDs == {"a", "b"}

\* EventType.
EventAdded == "added"
EventRemoved == "removed"
EventUpdated == "updated"

EventTypes == {EventAdded, EventRemoved, EventUpdated}

\* DiscoveryEvent: its type and the id of its backend.
DiscoveryEvents == [type : EventTypes, id : EventIDs]

\* What Discover has not been asked yet.
NoDiscovery == [d \in Discoverers |-> "none"]

\* Mutant of CompareAndSwap: the swap is made whatever the value is.
CompareAndSwap_Always(value, old, new) == [swapped |-> TRUE, value |-> new]

\* atomic.Bool.CompareAndSwap(old, new) on a flag that holds value.
CompareAndSwap(value, old, new) ==
    [swapped |-> (value = old), value |-> IF value = old THEN new ELSE value]

\* Mutant of CtxDone: a cancelled context is never seen as done.
CtxDone_Never(done, ctx) == FALSE

\* Whether <-ctx.Done() is ready, done being the cancelled contexts.
CtxDone(done, ctx) == ctx \in done

\* Whether the context the goroutines run under is done.  The goroutines
\* that run belong to the child context derived last.
RouterCtxDone == CtxDone(ctxDone, gen)

\* Mutant of SpawnWatcher: no goroutine is started.
SpawnWatcher_Skipped(w, d) == w

\* go r.watchEvents(ctx, d.Name(), events)
SpawnWatcher(w, d) == [w EXCEPT ![d] = "run"]

\* Mutant of AfterDiscoverer: Start leaves the loop after the first
\* discoverer.
AfterDiscoverer_FirstOnly(i) == [spc |-> "health", sd |-> 0]

\* The goroutines that have not returned.
RunningTasks ==
    {d \in Discoverers : watcher[d] = "run"}
        \cup (IF hloop \in {"run", "tick"} THEN {"health"} ELSE {})

\* A registry call made by a lifecycle goroutine puts a new handle under id
\* or takes the handle away: a handle of the health loop's snapshot with
\* that id is no longer the one in the table.
Outdated(id) == hstale \cup (hsnap \cap {id})

\* registry.Register(ctx, b) for a new handle with id `id`.
RouterRegister(id, fetch) ==
    /\ backends' = PutBackend(backends, id, TRUE)
    /\ models' = RegisterIndex(models, id, fetch)
    /\ unregistered' = unregistered \ {id}
    /\ hstale' = Outdated(id)
    /\ UNCHANGED last

\* registry.Unregister(id).
RouterUnregister(id) ==
    /\ backends' = DeleteBackend(backends, id)
    /\ models' = PruneMappings(models, id)
    /\ unregistered' = unregistered \cup {id}
    /\ hstale' = Outdated(id)
    /\ UNCHANGED last

\* registry.RefreshModels(ctx, id).
RouterRefreshModels(id, fetch) ==
    /\ models' = IF id \in DOMAIN backends THEN RefreshIndex(models, id, fetch)
                 ELSE models
    /\ UNCHANGED <<backends, unregistered, last, hstale>>

\* The frame of a step that leaves the goroutines alone.
tasksUnchanged == UNCHANGED <<watcher, wchan, wclosed, hloop, hsnap>>

\* Where Start goes after the discoverer at index i: to the next one, or to
\* the health loop.
AfterDiscoverer(i) ==
    IF i < Len(DiscovererOrder)
    THEN [spc |-> "discover", sd |-> i + 1]
    ELSE [spc |-> "health", sd |-> 0]

\* No goroutine of the router exists, and no Watch channel.
NoTasks ==
    [watcher |-> [d \in Discoverers |-> "none"],
     wchan |-> [d \in Discoverers |-> <<>>],
     wclosed |-> [d \in Discoverers |-> FALSE],
     hloop |-> "none"]

\* Start, lines 89-91: the compare-and-swap.  A call that loses it returns
\* nil at once.  A call that wins it is made when the goroutines of the
\* Start before have returned; what is left of them and of their channels
\* is garbage.
StartEnter ==
    /\ spc = "idle" \/ started
    /\ LET cas == CompareAndSwap(started, FALSE, TRUE)
       IN  IF cas.swapped
           THEN /\ gen < MaxStarts
                /\ RunningTasks = {}
                /\ started' = cas.value
                /\ spc' = "derive"
                /\ dlog' = NoDiscovery
                /\ watcher' = NoTasks.watcher
                /\ wchan' = NoTasks.wchan
                /\ wclosed' = NoTasks.wclosed
                /\ hloop' = NoTasks.hloop
                /\ hsnap' = {}
                /\ hstale' = {}
                /\ UNCHANGED ret
           ELSE /\ ret' = "Start: no-op"
                /\ UNCHANGED <<started, spc, dlog, hstale>>
                /\ tasksUnchanged
    /\ UNCHANGED <<regVars, gen, rcancel, ctxDone, wg, sd, sfound, tpc>>

\* Start, line 93: ctx, r.cancel = context.WithCancel(ctx); then the first
\* Discover call is made.
StartDerive ==
    /\ spc = "derive"
    /\ gen' = gen + 1
    /\ rcancel' = gen + 1
    /\ spc' = "discover"
    /\ sd' = 1
    /\ UNCHANGED <<regVars, started, ctxDone, wg, sfound, tpc, hstale, ret, dlog>>
    /\ tasksUnchanged

\* Start, lines 97-101: d.Discover(ctx) returns res.
DiscoverReturn(res) ==
    /\ spc = "discover"
    /\ dlog' = [dlog EXCEPT ![DiscovererOrder[sd]] =
                   IF res.ok THEN "discovered" ELSE "failed"]
    /\ IF res.ok
       THEN /\ spc' = "register"
            /\ sfound' = res.found
            /\ UNCHANGED sd
       ELSE /\ spc' = AfterDiscoverer(sd).spc
            /\ sd' = AfterDiscoverer(sd).sd
            /\ UNCHANGED sfound
    /\ UNCHANGED <<regVars, started, gen, rcancel, ctxDone, wg, tpc, hstale, ret>>
    /\ tasksUnchanged

\* Start, lines 103-109: one turn of the loop over the backends found.
StartRegister(fetch) ==
    /\ spc = "register"
    /\ sfound # <<>>
    /\ RouterRegister(Head(sfound), fetch)
    /\ sfound' = Tail(sfound)
    /\ UNCHANGED <<started, gen, rcancel, ctxDone, wg, spc, sd, tpc, ret, dlog>>
    /\ tasksUnchanged

\* Start, lines 112-119: d.Watch(ctx) returns a channel (ok) or an error;
\* with a channel the watcher goroutine is started.
StartWatch(ok) ==
    /\ spc = "register"
    /\ sfound = <<>>
    /\ LET d == DiscovererOrder[sd]
       IN  IF ok
           THEN /\ wg' = wg + 1
                /\ watcher' = SpawnWatcher(watcher, d)
                /\ wchan' = [wchan EXCEPT ![d] = <<>>]
                /\ wclosed' = [wclosed EXCEPT ![d] = FALSE]
                /\ dlog' = [dlog EXCEPT ![d] = "watched"]
           ELSE /\ dlog' = [dlog EXCEPT ![d] = "unwatched"]
                /\ UNCHANGED <<wg, watcher, wchan, wclosed>>
    /\ spc' = AfterDiscoverer(sd).spc
    /\ sd' = AfterDiscoverer(sd).sd
    /\ UNCHANGED <<regVars, started, gen, rcancel, ctxDone, sfound, tpc,
                   hloop, hsnap, hstale, ret>>

\* Start, lines 123-126: the health loop is started and Start returns nil.
StartReturn ==
    /\ spc = "health"
    /\ wg' = wg + 1
    /\ hloop' = "run"
    /\ hsnap' = {}
    /\ hstale' = {}
    /\ spc' = "idle"
    /\ ret' = "Start: nil"
    /\ UNCHANGED <<regVars, started, gen, rcancel, ctxDone, sd, sfound, tpc,
                   watcher, wchan, wclosed, dlog>>

\* Stop, lines 131-143: the compare-and-swap; a call that loses it returns
\* nil at once, the call that wins it calls r.cancel when that is not nil
\* and starts the goroutine that waits for r.wg.
StopEnter ==
    /\ tpc = "idle" \/ ~started
    /\ LET cas == CompareAndSwap(started, TRUE, FALSE)
       IN  IF cas.swapped
           THEN /\ started' = cas.value
                /\ ctxDone' = IF rcancel # 0 THEN ctxDone \cup {rcancel} ELSE ctxDone
                /\ tpc' = "wait"
                /\ UNCHANGED ret
           ELSE /\ ret' = "Stop: no-op"
                /\ UNCHANGED <<started, ctxDone, tpc>>
    /\ UNCHANGED <<regVars, gen, rcancel, wg, spc, sd, sfound, hstale, dlog>>
    /\ tasksUnchanged

\* Stop, lines 140-147: r.wg.Wait() returns, done is closed and Stop
\* returns nil.
StopReturn ==
    /\ tpc = "wait"
    /\ wg = 0
    /\ tpc' = "idle"
    /\ ret' = "Stop: nil"
    /\ UNCHANGED <<regVars, started, gen, rcancel, ctxDone, wg, spc, sd, sfound,
                   hstale, dlog>>
    /\ tasksUnchanged

\* Stop, lines 148-149: the caller's context is done, Stop returns its
\* error.
StopDeadline ==
    /\ tpc = "wait"
    /\ tpc' = "idle"
    /\ ret' = "Stop: ctx.Err()"
    /\ UNCHANGED <<regVars, started, gen, rcancel, ctxDone, wg, spc, sd, sfound,
                   hstale, dlog>>
    /\ tasksUnchanged

\* The frame of a watcher step.
watcherFrame ==
    UNCHANGED <<started, gen, rcancel, ctxDone, spc, sd, sfound, tpc, hloop,
                hsnap, ret, dlog>>

\* A discoverer sends event on the channel its Watch call returned, while
\* the channel has a reader.
DiscovererSend(d, event) ==
    /\ watcher[d] = "run"
    /\ ~wclosed[d]
    /\ Len(wchan[d]) < WatchCap
    /\ wchan' = [wchan EXCEPT ![d] = Append(@, event)]
    /\ UNCHANGED <<regVars, wg, watcher, wclosed, hstale>>
    /\ watcherFrame

\* A discoverer closes the channel its Watch call returned, while the
\* channel has a reader.
DiscovererClose(d) ==
    /\ watcher[d] = "run"
    /\ ~wclosed[d]
    /\ wclosed' = [wclosed EXCEPT ![d] = TRUE]
    /\ UNCHANGED <<regVars, wg, watcher, wchan, hstale>>
    /\ watcherFrame

\* Mutant of ApplyEvent: an updated backend is registered anew.
ApplyEvent_UpdateRegisters(event, fetch) ==
    IF event.type = EventRemoved
    THEN RouterUnregister(event.id)
    ELSE RouterRegister(event.id, fetch)

\* watchEvents, lines 181-194: the switch on event.Type; fetch is what the
\* backend's Models call returns where the registry makes one.
ApplyEvent(event, fetch) ==
    CASE event.type = EventAdded -> RouterRegister(event.id, fetch)
      [] event.type = EventRemoved -> RouterUnregister(event.id)
      [] event.type = EventUpdated -> RouterRefreshModels(event.id, fetch)

\* watchEvents, case event, ok := <-events with ok: the event at the head
\* of the channel is taken and applied.
WatchReceive(d, fetch) ==
    /\ watcher[d] = "run"
    /\ wchan[d] # <<>>
    /\ ApplyEvent(Head(wchan[d]), fetch)
    /\ wchan' = [wchan EXCEPT ![d] = Tail(@)]
    /\ UNCHANGED <<wg, watcher, wclosed>>
    /\ watcherFrame

\* watchEvents, case <-events with !ok: the channel is closed and empty;
\* the deferred r.wg.Done() runs.
WatchClosed(d) ==
    /\ watcher[d] = "run"
    /\ wchan[d] = <<>>
    /\ wclosed[d]
    /\ watcher' = [watcher EXCEPT ![d] = "exit"]
    /\ wg' = wg - 1
    /\ UNCHANGED <<regVars, wchan, wclosed, hstale>>
    /\ watcherFrame

\* watchEvents, case <-ctx.Done(); the deferred r.wg.Done() runs.
WatchCancelled(d) ==
    /\ watcher[d] = "run"
    /\ RouterCtxDone
    /\ watcher' = [watcher EXCEPT ![d] = "exit"]
    /\ wg' = wg - 1
    /\ UNCHANGED <<regVars, wchan, wclosed, hstale>>
    /\ watcherFrame

\* The frame of a health loop step.
healthFrame ==
    UNCHANGED <<started, gen, rcancel, ctxDone, spc, sd, sfound, tpc, watcher,
                wchan, wclosed, ret, dlog>>

\* healthCheckLoop, case <-ticker.C: r.registry.AllBackends() is taken.
HealthTick ==
    /\ hloop = "run"
    /\ DOMAIN backends # {}
    /\ hloop' = "tick"
    /\ hsnap' = DOMAIN backends
    /\ hstale' = {}
    /\ UNCHANGED <<regVars, wg>>
    /\ healthFrame

\* Mutant of ProbeHandle: a handle whose probe fails is taken out of the
\* table.
ProbeHandle_RemovesDead(tbl, id, stale, probeOK) ==
    IF ~probeOK THEN DeleteBackend(tbl, id)
    ELSE IF id \in stale THEN tbl
    ELSE [tbl EXCEPT ![id] = setHealthy(@, probeOK)]

\* The backend table after b.HealthCheck(ctx) on the snapshot's handle with
\* id `id`: the health bit of that handle is set; a handle the table no
\* longer holds is not in the table.
ProbeHandle(tbl, id, stale, probeOK) ==
    IF id \in stale THEN tbl
    ELSE [tbl EXCEPT ![id] = setHealthy(@, probeOK)]

\* healthCheckLoop, lines 210-214: one turn of the loop over the snapshot.
HealthProbe(id, probeOK) ==
    /\ hloop = "tick"
    /\ id \in hsnap
    /\ backends' = ProbeHandle(backends, id, hstale, probeOK)
    /\ hsnap' = hsnap \ {id}
    /\ hstale' = hstale \ {id}
    /\ hloop' = IF hsnap = {id} THEN "run" ELSE "tick"
    /\ UNCHANGED <<models, unregistered, last, wg>>
    /\ healthFrame

\* healthCheckLoop, case <-ctx.Done(); the deferred ticker.Stop() and
\* r.wg.Done() run.
HealthCancelled ==
    /\ hloop = "run"
    /\ RouterCtxDone
    /\ hloop' = "exit"
    /\ wg' = wg - 1
    /\ UNCHANGED <<regVars, hsnap, hstale>>
    /\ healthFrame

(***************************************************************************)
(* handleAPIRequest: one chat, completion or embeddings request, from the  *)
(* decoded body to the first write on the response.  Each registry lookup  *)
(* is one step (it holds the registry's read lock); the registry may       *)
(* change between the model lookup and the lookup of the default backend.  *)
(***************************************************************************)

\* SessionBrokenHeader.
SessionBrokenHeader == "X-Session-Broken"

\* No request is being served.
NoRequest == [pc |-> "idle", model |-> "", session |-> <<>>,
              looked |-> "none", lookup |-> NotFound,
              backend |-> "", sessionBroken |-> FALSE,
              header |-> {}, status |-> 0, sent |-> {}, body |-> "none"]

\* NewRouter without options: no session affinity, no default backend.
RoutingDefaults ==
    /\ sessionAffinity = FALSE
    /\ defaultBackend = ""
    /\ req = NoRequest

\* The ids WithDefaultBackend is given: none, or a backend that may or may
\* not be registered when a request arrives.
DefaultBackendIDs == {"", "b"}

\* NewRouter applies WithSessionAffinity and WithDefaultBackend, before the
\* router is handed to anyone.
WithOptions(enabled, backendID) ==
    /\ sessionAffinity = FALSE
    /\ defaultBackend = ""
    /\ <<enabled, backendID>> # <<FALSE, "">>
    /\ req = NoRequest
    /\ backends = EmptyMap
    /\ models = EmptyMap
    /\ unregistered = {}
    /\ last = NoCall
    /\ sessionAffinity' = enabled
    /\ defaultBackend' = backendID
    /\ UNCHANGED <<regVars, heal, req, lockVars, streamVars, routerVars>>

requestFrame == UNCHANGED <<regVars, heal, sessionAffinity, defaultBackend, lockVars,
                           streamVars, routerVars>>

\* types.WriteError and the other first writes: the status goes out with the
\* headers set so far, then the body.
WriteResponse(rq, statusCode, body) ==
    [rq EXCEPT !.pc = "done", !.status = statusCode, !.sent = rq.header,
               !.body = body]

\* Lines 230-236: the body is decoded; a body that does not decode is
\* answered 400.
Decode(modelID, sessionID, decodeOK) ==
    /\ req.pc = "idle"
    /\ req' = IF decodeOK
              THEN [NoRequest EXCEPT !.pc = "lookup", !.model = modelID,
                                     !.session = sessionID]
              ELSE WriteResponse(NoRequest, 400, "invalid request")
    /\ requestFrame

\* Mutant of AfterLookup: a model without a backend is answered 404 at once.
AfterLookup_IgnoresDefault(rq, res, defaultID) ==
    IF res.ok
    THEN [rq EXCEPT !.pc = "header", !.backend = res.backend,
                    !.sessionBroken = res.broken]
    ELSE WriteResponse(rq, 404, "model not found")

\* Lines 245-258 and 262-270: what follows the model lookup's result.
AfterLookup(rq, res, defaultID) ==
    IF res.ok
    THEN [rq EXCEPT !.pc = "header", !.backend = res.backend,
                    !.sessionBroken = res.broken]
    ELSE IF defaultID # ""
         THEN [rq EXCEPT !.pc = "default"]
         ELSE WriteResponse(rq, 404, "model not found")

\* Lines 241-244 and 259-261: the model lookup, with the session id when
\* session affinity is enabled.
ModelLookup ==
    /\ req.pc = "lookup"
    /\ \E res \in IF sessionAffinity
                  THEN LookupByModelWithSession(backends, models, req.model, req.session)
                  ELSE {LookupByModel(backends, models, req.model)} :
          req' = AfterLookup([req EXCEPT !.looked = IF sessionAffinity
                                                    THEN "LookupByModelWithSession"
                                                    ELSE "LookupByModel",
                                         !.lookup = res],
                             res, defaultBackend)
    /\ requestFrame

\* Lines 251-257 and 264-269: the default backend is looked up by its id.
DefaultLookup ==
    /\ req.pc = "default"
    /\ LET res == LookupByID(backends, defaultBackend)
       IN  req' = IF res.ok
                  THEN [req EXCEPT !.pc = "header", !.backend = res.backend]
                  ELSE WriteResponse(req, 404, "model not found")
    /\ requestFrame

\* Mutant of SetSessionBroken: the header is set on every response.
SetSessionBroken_Always(header, sessionBroken) ==
    header \cup {SessionBrokenHeader}

\* Lines 273-276.
SetSessionBroken(header, sessionBroken) ==
    IF sessionBroken THEN header \cup {SessionBrokenHeader} ELSE header

SetHeader ==
    /\ req.pc = "header"
    /\ req' = [req EXCEPT !.pc = "dispatch",
                          !.header = SetSessionBroken(req.header, req.sessionBroken)]
    /\ requestFrame

\* How the call of the backend ends: handleStream without an http.Flusher,
\* a backend call that fails, a stream that starts, a unary response.
DispatchOutcomes == {"streaming not supported", "backend error", "sse", "json"}

\* Lines 278-293 and handleStream's first write.
Dispatch(outcome) ==
    /\ req.pc = "dispatch"
    /\ req' = IF outcome \in {"streaming not supported", "backend error"}
              THEN WriteResponse(req, 500, outcome)
              ELSE WriteResponse(req, 200, outcome)
    /\ requestFrame

\* The handler has returned; the next request may arrive.
RequestDone ==
    /\ req.pc = "done"
    /\ req' = NoRequest
    /\ requestFrame

(***************************************************************************)
(* The registry under its lock.  Each goroutine makes one registry call at *)
(* a time and takes it statement by statement: r.mu.Lock or r.mu.RLock,    *)
(* the statements of the body, and the deferred unlock at the return.      *)
(* sync.RWMutex: a writer first takes the writer mutex, which keeps new    *)
(* readers out, then waits for the readers inside to leave; its Unlock     *)
(* lets in the readers that were kept out.  Health bits are atomic.Bool    *)
(* values of the handles and are read and written without the lock.        *)
(***************************************************************************)
Goroutines == {"g1", "g2"}

WriterOps == {"Register", "Unregister", "RefreshModels", "AllModels"}

\* The reads that take one look at the maps.
PlainReaderOps == {"LookupByModel", "LookupByID", "AllBackends", "Count"}

ReaderOps == PlainReaderOps \cup {"LookupByModelWithSession"}

\* The zero sync.RWMutex.
Unlocked == [w |-> "", readers |-> {}, blocked |-> {}]

NoFetch == [ok |-> FALSE, models |-> <<>>]

\* A goroutine that is in no registry call.
NotCalling == [op |-> "none", pc |-> "idle", id |-> "", model |-> "", session |-> <<>>,
               fetch |-> NoFetch, i |-> 0,
               allBackends |-> <<>>, healthyBackends |-> <<>>]

LockIdle ==
    /\ mu = Unlocked
    /\ calls = [g \in Goroutines |-> NotCalling]
    /\ fetchedOK = EmptyMap

\* rw.w.Lock() of Lock: the writer mutex is taken and readers are kept out.
Lock(m, g) == [m EXCEPT !.w = g]

\* Mutant of Unlock: the deferred Unlock is left out.
Unlock_Forgotten(m) == m

\* Unlock: the readers that were kept out enter, the writer mutex is free.
Unlock(m) == [w |-> "", readers |-> m.blocked, blocked |-> {}]

\* Mutant of RLock: a reader enters whether or not a writer is there.
RLock_IgnoresWriter(m, g) == [m EXCEPT !.readers = @ \cup {g}]

\* RLock: the reader enters unless a writer has taken the writer mutex.
RLock(m, g) ==
    IF m.w = ""
    THEN [m EXCEPT !.readers = @ \cup {g}]
    ELSE [m EXCEPT !.blocked = @ \cup {g}]

RUnlock(m, g) == [m EXCEPT !.readers = @ \ {g}]

\* f without key k, and f with k bound to v.
Drop(f, k) == [x \in DOMAIN f \ {k} |-> f[x]]

Bind(f, k, v) == [x \in DOMAIN f \cup {k} |-> IF x = k THEN v ELSE f[x]]

lockFrame == UNCHANGED <<heal, reqVars, streamVars, routerVars>>

\* A goroutine calls a registry operation.
Begin(g, op, id, modelID, sessionID) ==
    /\ calls[g].pc = "idle"
    /\ calls' = [calls EXCEPT ![g] = [NotCalling EXCEPT !.op = op, !.pc = "lock",
                                                        !.id = id, !.model = modelID,
                                                        !.session = sessionID]]
    /\ UNCHANGED <<regVars, mu, fetchedOK>>
    /\ lockFrame

\* r.mu.Lock(), first half: the writer mutex.
WLock(g) ==
    /\ calls[g].pc = "lock"
    /\ calls[g].op \in WriterOps
    /\ mu.w = ""
    /\ mu' = Lock(mu, g)
    /\ calls' = [calls EXCEPT ![g].pc = "drain"]
    /\ UNCHANGED <<regVars, fetchedOK>>
    /\ lockFrame

\* The first statement of each mutation's body.
Entry(op) ==
    CASE op = "Register" -> "put"
      [] op = "Unregister" -> "delete"
      [] op = "RefreshModels" -> "check"
      [] op = "AllModels" -> "range"

\* r.mu.Lock(), second half: the readers inside have left.
WDrain(g) ==
    /\ calls[g].pc = "drain"
    /\ mu.readers = {}
    /\ calls' = [calls EXCEPT ![g].pc = Entry(calls[g].op)]
    /\ UNCHANGED <<regVars, mu, fetchedOK>>
    /\ lockFrame

\* The return of a mutation: the deferred r.mu.Unlock().
WriterReturns(g) ==
    /\ mu' = Unlock(mu)
    /\ calls' = [h \in Goroutines |->
                    IF h = g THEN NotCalling
                    ELSE IF h \in mu.blocked /\ h \in mu'.readers
                         THEN [calls[h] EXCEPT !.pc = "read"]
                         ELSE calls[h]]

\* r.mu.RLock().
RLockStep(g) ==
    /\ calls[g].pc = "lock"
    /\ calls[g].op \in ReaderOps
    /\ mu' = RLock(mu, g)
    /\ calls' = [calls EXCEPT ![g].pc = IF g \in mu'.readers THEN "read" ELSE "blocked"]
    /\ UNCHANGED <<regVars, fetchedOK>>
    /\ lockFrame

\* The return of a read: the deferred r.mu.RUnlock().
ReaderReturns(g) ==
    /\ mu' = RUnlock(mu, g)
    /\ calls' = [calls EXCEPT ![g] = NotCalling]

\* Register, line 39: r.backends[b.ID()] = b.
RegisterPut(g, healthy) ==
    /\ calls[g].pc = "put"
    /\ backends' = PutBackend(backends, calls[g].id, healthy)
    /\ unregistered' = unregistered \ {calls[g].id}
    /\ fetchedOK' = Drop(fetchedOK, calls[g].id)
    /\ calls' = [calls EXCEPT ![g].pc = "fetch"]
    /\ UNCHANGED <<models, last, mu>>
    /\ lockFrame

\* Register, lines 42-46, and RefreshModels, lines 278-281: the backend's
\* Models call returns; an error ends the call.
ModelsReturns(g, fetch) ==
    /\ calls[g].pc = "fetch"
    /\ IF fetch.ok
       THEN /\ calls' = [calls EXCEPT ![g].pc = "index", ![g].fetch = fetch]
            /\ fetchedOK' = Bind(fetchedOK, calls[g].id, fetch.models)
            /\ mu' = mu
       ELSE /\ WriterReturns(g)
            /\ fetchedOK' = fetchedOK
    /\ UNCHANGED regVars
    /\ lockFrame

\* Register, lines 48-52, and RefreshModels, lines 283-287: the fetched
\* models are indexed and the call returns.
IndexFetched(g) ==
    /\ calls[g].pc = "index"
    /\ models' = IndexModels(models, calls[g].fetch.models, calls[g].id)
    /\ WriterReturns(g)
    /\ UNCHANGED <<backends, unregistered, last, fetchedOK>>
    /\ lockFrame

\* Unregister, line 60: delete(r.backends, id).
UnregisterDelete(g) ==
    /\ calls[g].pc = "delete"
    /\ backends' = DeleteBackend(backends, calls[g].id)
    /\ unregistered' = unregistered \cup {calls[g].id}
    /\ fetchedOK' = Drop(fetchedOK, calls[g].id)
    /\ calls' = [calls EXCEPT ![g].pc = "prune"]
    /\ UNCHANGED <<models, last, mu>>
    /\ lockFrame

\* Unregister, lines 62-76: the filter loop, and the return.
UnregisterPrune(g) ==
    /\ calls[g].pc = "prune"
    /\ models' = PruneMappings(models, calls[g].id)
    /\ WriterReturns(g)
    /\ UNCHANGED <<backends, unregistered, last, fetchedOK>>
    /\ lockFrame

\* RefreshModels, lines 257-276: an unknown id ends the call; the mappings
\* of a known one are removed.
RefreshCheck(g) ==
    /\ calls[g].pc = "check"
    /\ IF calls[g].id \in DOMAIN backends
       THEN /\ models' = PruneMappings(models, calls[g].id)
            /\ fetchedOK' = Drop(fetchedOK, calls[g].id)
            /\ calls' = [calls EXCEPT ![g].pc = "fetch"]
            /\ mu' = mu
       ELSE /\ WriterReturns(g)
            /\ UNCHANGED <<models, fetchedOK>>
    /\ UNCHANGED <<backends, unregistered, last>>
    /\ lockFrame

\* AllModels, lines 230-250: the loop over the table, every Models call
\* of it returning, and the return.
AllModelsRange(g, order, fetches) ==
    /\ calls[g].pc = "range"
    /\ models' = AllModelsLoop(models, <<>>, order, fetches).idx
    /\ fetchedOK' = [b \in DOMAIN fetchedOK \cup {x \in DOMAIN backends : fetches[x].ok} |->
                        IF b \in DOMAIN backends /\ fetches[b].ok
                        THEN fetches[b].models
                        ELSE fetchedOK[b]]
    /\ WriterReturns(g)
    /\ UNCHANGED <<backends, unregistered, last>>
    /\ lockFrame

\* LookupByModel, LookupByID, AllBackends, Count: the maps are read and the
\* call returns.
ReadReturn(g) ==
    /\ calls[g].pc = "read"
    /\ calls[g].op \in PlainReaderOps
    /\ ReaderReturns(g)
    /\ UNCHANGED <<regVars, fetchedOK>>
    /\ lockFrame

\* LookupByModelWithSession returns res.
SessionReturns(g, res) ==
    /\ ReaderReturns(g)
    /\ last' = Response("LookupByModelWithSession", calls[g].model, calls[g].session,
                        "", res)
    /\ UNCHANGED <<backends, models, unregistered, fetchedOK>>
    /\ lockFrame

\* LookupByModelWithSession, lines 130-135: the model's sequence is read.
SessionEnter(g) ==
    /\ calls[g].pc = "read"
    /\ calls[g].op = "LookupByModelWithSession"
    /\ IF BackendIDsOf(models, calls[g].model) = <<>>
       THEN SessionReturns(g, NotFound)
       ELSE /\ calls' = [calls EXCEPT ![g].pc = IF calls[g].session = <<>>
                                                THEN "first" ELSE "scan",
                                      ![g].i = 1]
            /\ UNCHANGED <<regVars, mu, fetchedOK>>
            /\ lockFrame

\* LookupByModelWithSession, lines 136-148: without a session id, one
\* round of the first-healthy loop, or the statements after it.
SessionFirst(g) ==
    /\ calls[g].pc = "first"
    /\ LET backendIDs == BackendIDsOf(models, calls[g].model)
           i == calls[g].i
       IN  IF i <= Len(backendIDs)
           THEN IF IsHealthyIn(backends, backendIDs[i])
                THEN SessionReturns(g, Found(backendIDs[i], FALSE))
                ELSE /\ calls' = [calls EXCEPT ![g].i = i + 1]
                     /\ UNCHANGED <<regVars, mu, fetchedOK>>
                     /\ lockFrame
           ELSE SessionReturns(g, IF backendIDs[1] \in DOMAIN backends
                                  THEN Found(backendIDs[1], FALSE)
                                  ELSE NotFound)

\* LookupByModelWithSession, lines 153-163: one round of the loop that
\* collects allBackends and healthyBackends; IsHealthy is read once.
SessionScan(g) ==
    /\ calls[g].pc = "scan"
    /\ LET backendIDs == BackendIDsOf(models, calls[g].model)
           i == calls[g].i
       IN  IF i <= Len(backendIDs)
           THEN LET bid == backendIDs[i]
                IN  calls' = [calls EXCEPT
                        ![g].i = i + 1,
                        ![g].allBackends =
                            IF bid \in DOMAIN backends THEN Append(@, bid) ELSE @,
                        ![g].healthyBackends =
                            IF IsHealthyIn(backends, bid) THEN Append(@, bid) ELSE @]
           ELSE calls' = [calls EXCEPT ![g].pc = "pick"]
    /\ UNCHANGED <<regVars, mu, fetchedOK>>
    /\ lockFrame

\* LookupByModelWithSession, lines 165-193: the slices are sorted, the
\* preferred backend's IsHealthy is read again, and the call returns.
SessionChoose(g) ==
    /\ calls[g].pc = "pick"
    /\ IF calls[g].allBackends = <<>>
       THEN SessionReturns(g, NotFound)
       ELSE \E sa \in SortByID(calls[g].allBackends),
               sh \in SortByID(calls[g].healthyBackends) :
               SessionReturns(g, SessionPick(backends, sa, sh, calls[g].session))

\* setHealthy on a registered handle: the atomic store, made without the
\* registry's lock.
StoreHealthy(id, healthy) ==
    /\ id \in DOMAIN backends
    /\ backends[id].healthy # healthy
    /\ backends' = [backends EXCEPT ![id] = setHealthy(@, healthy)]
    /\ UNCHANGED <<models, unregistered, last, lockVars>>
    /\ lockFrame

(***************************************************************************)
(* Specifications.                                                         *)
(***************************************************************************)

StreamIdle ==
    /\ handler = "none"
    /\ flusher = TRUE
    /\ hpc = "idle"
    /\ response = {}
    /\ streamEnded = FALSE
    /\ streamCalls = 0
    /\ writes = <<>>
    /\ clientUp = TRUE
    /\ ppc = "off"
    /\ pending = NoEvent
    /\ events = <<>>
    /\ closed = FALSE
    /\ bodyClosed = 0
    /\ cancelled = FALSE
    /\ lines = <<>>
    /\ sent = <<>>
    /\ cause = "none"

\* The router NewRouter returns: not started, no context, no goroutine.
RouterCreated ==
    /\ started = FALSE
    /\ gen = 0
    /\ rcancel = 0
    /\ ctxDone = {}
    /\ wg = 0
    /\ spc = "idle"
    /\ sd = 0
    /\ sfound = <<>>
    /\ tpc = "idle"
    /\ watcher = NoTasks.watcher
    /\ wchan = NoTasks.wchan
    /\ wclosed = NoTasks.wclosed
    /\ hloop = NoTasks.hloop
    /\ hsnap = {}
    /\ hstale = {}
    /\ ret = "none"
    /\ dlog = NoDiscovery

Init ==
    /\ backends = EmptyMap
    /\ models = EmptyMap
    /\ unregistered = {}
    /\ last = NoCall
    /\ heal = NoHeal
    /\ RoutingDefaults
    /\ LockIdle
    /\ StreamIdle
    /\ RouterCreated

\* The registry under its callers; no session is followed and no stream is
\* open.
Next ==
    \/ /\ \E id \in BackendIDs, h \in BOOLEAN, f \in FetchResults : Register(id, h, f)
       /\ UNCHANGED <<heal, reqVars, lockVars, streamVars, routerVars>>
    \/ /\ \E id \in BackendIDs : Unregister(id)
       /\ UNCHANGED <<heal, reqVars, lockVars, streamVars, routerVars>>
    \/ /\ \E id \in BackendIDs, f \in FetchResults : RefreshModels(id, f)
       /\ UNCHANGED <<heal, reqVars, lockVars, streamVars, routerVars>>
    \/ /\ CallAllModels
       /\ UNCHANGED <<heal, reqVars, lockVars, streamVars, routerVars>>
    \/ /\ \E id \in BackendIDs, probeOK \in BOOLEAN : HealthCheck(id, probeOK)
       /\ UNCHANGED <<heal, reqVars, lockVars, streamVars, routerVars>>
    \/ /\ \E c \in BackendCalls, id \in BackendIDs, ok \in BOOLEAN : BackendCall(c, id, ok)
       /\ UNCHANGED <<heal, reqVars, lockVars, streamVars, routerVars>>
    \/ /\ \E m \in LookupModels : CallLookupByModel(m)
       /\ UNCHANGED <<heal, reqVars, lockVars, streamVars, routerVars>>
    \/ /\ \E m \in LookupModels, s \in SessionIDs : CallLookupByModelWithSession(m, s)
       /\ UNCHANGED <<heal, reqVars, lockVars, streamVars, routerVars>>
    \/ /\ \E id \in BackendIDs : CallLookupByID(id)
       /\ UNCHANGED <<heal, reqVars, lockVars, streamVars, routerVars>>
    \/ /\ Release
       /\ UNCHANGED <<heal, reqVars, lockVars, streamVars, routerVars>>

Spec == Init /\ [][Next]_vars

\* The registry under registrations, health checks and the lookups of one
\* followed session.
HealNext ==
    \/ /\ \E id \in BackendIDs, h \in BOOLEAN, f \in FetchResults : HealRegister(id, h, f)
       /\ UNCHANGED <<reqVars, lockVars, streamVars, routerVars>>
    \/ /\ \E id \in BackendIDs, probeOK \in BOOLEAN : HealHealthCheck(id, probeOK)
       /\ UNCHANGED <<reqVars, lockVars, streamVars, routerVars>>
    \/ /\ \E m \in ModelIDs, s \in SessionIDs : HealLookup(m, s)
       /\ UNCHANGED <<reqVars, lockVars, streamVars, routerVars>>
    \/ /\ HealRelease
       /\ UNCHANGED <<reqVars, lockVars, streamVars, routerVars>>

SpecHeal == Init /\ [][HealNext]_vars

\* The registry under its mutating operations alone.
RegistryNext ==
    \/ /\ \E id \in BackendIDs, h \in BOOLEAN, f \in FetchResults : Register(id, h, f)
       /\ UNCHANGED <<heal, reqVars, lockVars, streamVars, routerVars>>
    \/ /\ \E id \in BackendIDs : Unregister(id)
       /\ UNCHANGED <<heal, reqVars, lockVars, streamVars, routerVars>>
    \/ /\ \E id \in BackendIDs, f \in FetchResults : RefreshModels(id, f)
       /\ UNCHANGED <<heal, reqVars, lockVars, streamVars, routerVars>>
    \/ /\ CallAllModels
       /\ UNCHANGED <<heal, reqVars, lockVars, streamVars, routerVars>>
    \/ /\ Release
       /\ UNCHANGED <<heal, reqVars, lockVars, streamVars, routerVars>>

SpecRegistry == Init /\ [][RegistryNext]_vars

\* Calls of hashSessionToIndex alone.
HashNext ==
    \/ /\ \E s \in HashInputs, n \in 1..MaxCount : CallHash(s, n)
       /\ UNCHANGED <<heal, reqVars, lockVars, streamVars, routerVars>>
    \/ /\ Release
       /\ UNCHANGED <<heal, reqVars, lockVars, streamVars, routerVars>>

SpecHash == Init /\ [][HashNext]_vars

\* The ids the registry holds while requests are served, and what their
\* Models call returns.
RequestBackends == {"a", "b"}

RequestFetches == {[ok |-> FALSE, models |-> <<>>], [ok |-> TRUE, models |-> <<"m1">>]}

RequestModels == {"m1", NoSuchModel}

RequestSessions == {<<>>, <<97>>, <<98>>}

\* Requests served while backends come, go and change health.
RequestNext ==
    \/ \E enabled \in BOOLEAN, id \in DefaultBackendIDs : WithOptions(enabled, id)
    \/ \E m \in RequestModels, s \in RequestSessions, ok \in BOOLEAN : Decode(m, s, ok)
    \/ ModelLookup
    \/ DefaultLookup
    \/ SetHeader
    \/ \E o \in DispatchOutcomes : Dispatch(o)
    \/ RequestDone
    \/ /\ \E id \in RequestBackends, f \in RequestFetches : Register(id, TRUE, f)
       /\ UNCHANGED <<heal, reqVars, lockVars, streamVars, routerVars>>
    \/ /\ \E id \in RequestBackends : Unregister(id)
       /\ UNCHANGED <<heal, reqVars, lockVars, streamVars, routerVars>>
    \/ /\ \E id \in RequestBackends, probeOK \in BOOLEAN : HealthCheck(id, probeOK)
       /\ UNCHANGED <<heal, reqVars, lockVars, streamVars, routerVars>>
    \/ /\ Release
       /\ UNCHANGED <<heal, reqVars, lockVars, streamVars, routerVars>>

SpecRequest == Init /\ [][RequestNext]_vars

\* The steps a goroutine takes inside a registry call, the Models calls
\* returning one of fetches.
CallStep(g, fetches) ==
    \/ WLock(g)
    \/ WDrain(g)
    \/ RLockStep(g)
    \/ RegisterPut(g, TRUE)
    \/ \E f \in fetches : ModelsReturns(g, f)
    \/ IndexFetched(g)
    \/ UnregisterDelete(g)
    \/ UnregisterPrune(g)
    \/ RefreshCheck(g)
    \/ \E order \in MapOrders(DOMAIN backends), fs \in [DOMAIN backends -> fetches] :
          AllModelsRange(g, order, fs)
    \/ ReadReturn(g)

\* The registry calls goroutines start, on the backends ids.
CallBegin(g, ids) ==
    \/ \E op \in WriterOps \ {"AllModels"}, id \in ids : Begin(g, op, id, "", <<>>)
    \/ Begin(g, "AllModels", "", "", <<>>)
    \/ \E op \in PlainReaderOps : Begin(g, op, "", "", <<>>)

\* Two goroutines calling the registry at will.
LockNext ==
    \/ \E g \in Goroutines : CallBegin(g, RequestBackends)
    \/ \E g \in Goroutines : CallStep(g, RequestFetches)
    \/ \E id \in RequestBackends, h \in BOOLEAN : StoreHealthy(id, h)

SpecLock == Init /\ [][LockNext]_vars

\* The same over one backend, with the goroutines scheduled and the writer
\* mutex handed to every writer that keeps asking for it (sync.Mutex hands
\* over to a waiter that has been starved).
LockOneNext ==
    \/ \E g \in Goroutines : CallBegin(g, {"a"})
    \/ \E g \in Goroutines : CallStep(g, RequestFetches)
    \/ \E h \in BOOLEAN : StoreHealthy("a", h)

LockFairness ==
    \A g \in Goroutines :
        /\ WF_vars(CallStep(g, RequestFetches))
        /\ SF_vars(WLock(g))

SpecLockFair == Init /\ [][LockOneNext]_vars /\ LockFairness

\* The session lookups made while backends are registered and change health.
SessionLookupSessions == {<<>>, <<97>>, <<98>>}

SessionNext ==
    \/ \E id \in RequestBackends : Begin("g1", "Register", id, "", <<>>)
    \/ \E id \in RequestBackends : Begin("g1", "Unregister", id, "", <<>>)
    \/ \E s \in SessionLookupSessions : Begin("g2", "LookupByModelWithSession", "", "m1", s)
    \/ \E g \in Goroutines : WLock(g)
    \/ \E g \in Goroutines : WDrain(g)
    \/ \E g \in Goroutines : RLockStep(g)
    \/ \E g \in Goroutines : RegisterPut(g, TRUE)
    \/ \E g \in Goroutines : ModelsReturns(g, [ok |-> TRUE, models |-> <<"m1">>])
    \/ \E g \in Goroutines : IndexFetched(g)
    \/ \E g \in Goroutines : UnregisterDelete(g)
    \/ \E g \in Goroutines : UnregisterPrune(g)
    \/ \E g \in Goroutines : SessionEnter(g)
    \/ \E g \in Goroutines : SessionFirst(g)
    \/ \E g \in Goroutines : SessionScan(g)
    \/ \E g \in Goroutines : SessionChoose(g)
    \/ \E id \in RequestBackends, h \in BOOLEAN : StoreHealthy(id, h)

SpecSession == Init /\ [][SessionNext]_vars

\* The steps of the Start call, with the Discover results drawn from
\* results.
StartNext(results) ==
    \/ StartEnter
    \/ StartDerive
    \/ \E res \in results : DiscoverReturn(res)
    \/ \E f \in RouterFetches : StartRegister(f)
    \/ \E ok \in BOOLEAN : StartWatch(ok)
    \/ StartReturn

\* The steps of the Stop call.
StopNext ==
    \/ StopEnter
    \/ StopReturn
    \/ StopDeadline

\* The steps of the discoverers in ds behind their channels, with the
\* events drawn from es.
DiscovererNext(ds, es) ==
    \/ \E d \in ds, e \in es : DiscovererSend(d, e)
    \/ \E d \in ds : DiscovererClose(d)

\* The steps of the healthCheckLoop goroutine between two looks at the
\* context.
HealthRound ==
    \/ HealthTick
    \/ \E id \in BackendIDs, ok \in BOOLEAN : HealthProbe(id, ok)

\* The discoveries of the lifecycle: one backend at most.
SmallDiscoveries == {res \in DiscoverResults : Len(res.found) <= 1}

\* The events of the lifecycle: backend a comes and goes.
SmallEvents == {e \in DiscoveryEvents : e.id = "a" /\ e.type # EventUpdated}

\* The router under its caller, its discoverers and its goroutines.
RouterNext ==
    \/ StartNext(SmallDiscoveries) /\ UNCHANGED <<heal, reqVars, lockVars, streamVars>>
    \/ StopNext /\ UNCHANGED <<heal, reqVars, lockVars, streamVars>>
    \/ DiscovererNext(Discoverers, SmallEvents) /\ UNCHANGED <<heal, reqVars, lockVars, streamVars>>
    \/ /\ \E d \in Discoverers, f \in RouterFetches : WatchReceive(d, f)
       /\ UNCHANGED <<heal, reqVars, lockVars, streamVars>>
    \/ (\E d \in Discoverers : WatchClosed(d)) /\ UNCHANGED <<heal, reqVars, lockVars, streamVars>>
    \/ (\E d \in Discoverers : WatchCancelled(d)) /\ UNCHANGED <<heal, reqVars, lockVars, streamVars>>
    \/ HealthRound /\ UNCHANGED <<heal, reqVars, lockVars, streamVars>>
    \/ HealthCancelled /\ UNCHANGED <<heal, reqVars, lockVars, streamVars>>

SpecRouter == Init /\ [][RouterNext]_vars

\* What the scheduler and the goroutines owe: a goroutine that can take a
\* step takes one; a select with a ready <-ctx.Done() among its cases takes
\* that case in the end, as select chooses among ready cases at random; a
\* registry call and a health probe return.  Nothing is owed by the caller,
\* nor by a discoverer: its Discover call may never return, and it need
\* not send or close.
RouterFairness ==
    /\ WF_vars(StartDerive /\ UNCHANGED <<heal, reqVars, lockVars, streamVars>>)
    /\ WF_vars((\E f \in RouterFetches : StartRegister(f))
                  /\ UNCHANGED <<heal, reqVars, lockVars, streamVars>>)
    /\ WF_vars((\E ok \in BOOLEAN : StartWatch(ok)) /\ UNCHANGED <<heal, reqVars, lockVars, streamVars>>)
    /\ WF_vars(StartReturn /\ UNCHANGED <<heal, reqVars, lockVars, streamVars>>)
    /\ \A d \in Discoverers :
          /\ WF_vars((\E f \in RouterFetches : WatchReceive(d, f))
                        /\ UNCHANGED <<heal, reqVars, lockVars, streamVars>>)
          /\ WF_vars(WatchClosed(d) /\ UNCHANGED <<heal, reqVars, lockVars, streamVars>>)
          /\ WF_vars(WatchCancelled(d) /\ UNCHANGED <<heal, reqVars, lockVars, streamVars>>)
    /\ WF_vars((\E id \in BackendIDs, ok \in BOOLEAN : HealthProbe(id, ok))
                  /\ UNCHANGED <<heal, reqVars, lockVars, streamVars>>)
    /\ SF_vars(HealthCancelled /\ UNCHANGED <<heal, reqVars, lockVars, streamVars>>)

\* The Start call in question is not one that starts a stopped router
\* again.
NoRestart == gen = 0 \/ started \/ spc # "idle"

\* The removal of backend a.
Removals == {e \in SmallEvents : e.type = EventRemoved}

\* The router started once, under its caller, its discoverers and its
\* goroutines.
RouterOnceNext ==
    \/ NoRestart /\ StartNext(SmallDiscoveries) /\ UNCHANGED <<heal, reqVars, lockVars, streamVars>>
    \/ StopNext /\ UNCHANGED <<heal, reqVars, lockVars, streamVars>>
    \/ DiscovererNext(Discoverers, Removals) /\ UNCHANGED <<heal, reqVars, lockVars, streamVars>>
    \/ /\ \E d \in Discoverers, f \in RouterFetches : WatchReceive(d, f)
       /\ UNCHANGED <<heal, reqVars, lockVars, streamVars>>
    \/ (\E d \in Discoverers : WatchClosed(d)) /\ UNCHANGED <<heal, reqVars, lockVars, streamVars>>
    \/ (\E d \in Discoverers : WatchCancelled(d)) /\ UNCHANGED <<heal, reqVars, lockVars, streamVars>>
    \/ HealthRound /\ UNCHANGED <<heal, reqVars, lockVars, streamVars>>
    \/ HealthCancelled /\ UNCHANGED <<heal, reqVars, lockVars, streamVars>>

SpecRouterFair == Init /\ [][RouterOnceNext]_vars /\ RouterFairness

\* A started router that is not stopped: the first discoverer sends events
\* of every kind, the second is silent.
WatchNext ==
    \/ StartNext(DiscoverResults) /\ UNCHANGED <<heal, reqVars, lockVars, streamVars>>
    \/ /\ DiscovererNext({DiscovererOrder[1]}, DiscoveryEvents)
       /\ UNCHANGED <<heal, reqVars, lockVars, streamVars>>
    \/ /\ \E d \in Discoverers, f \in RouterFetches : WatchReceive(d, f)
       /\ UNCHANGED <<heal, reqVars, lockVars, streamVars>>
    \/ (\E d \in Discoverers : WatchClosed(d)) /\ UNCHANGED <<heal, reqVars, lockVars, streamVars>>
    \/ HealthRound /\ UNCHANGED <<heal, reqVars, lockVars, streamVars>>

SpecWatch == Init /\ [][WatchNext]_vars

\* One streaming request: the handler, the producer goroutine and the
\* request context.
StreamNext ==
    \/ \E h \in StreamHandlers, canFlush \in BOOLEAN : StartStream(h, canFlush)
    \/ \E callOK \in BOOLEAN : CallStream(callOK)
    \/ \E wok \in BOOLEAN : Receive(wok)
    \/ \E wok \in BOOLEAN : Finish(wok)
    \/ ProducerSelect
    \/ \E res \in ReadResults : ProducerRead(res)
    \/ ProducerSend
    \/ ProducerExit
    \/ Cancel

SpecStream == Init /\ [][StreamNext]_vars

\* The goroutines are scheduled: a producer step or a handler step that
\* stays possible is taken.
SpecStreamFair ==
    /\ Init
    /\ [][StreamNext]_vars
    /\ WF_vars(ProducerNext)
    /\ WF_vars(HandlerNext)

(***************************************************************************)
(* Properties.                                                             *)
(***************************************************************************)

\* What the last lookup returned.
LastResult == [ok |-> last.ok, backend |-> last.backend, broken |-> last.broken]

\* The registered backends of a model, as a set, and the healthy ones.
RegisteredFor(m) == Range(BackendIDsOf(models, m)) \cap DOMAIN backends

HealthyFor(m) == {b \in RegisteredFor(m) : backends[b].healthy}

\* Element k (from 0) of a set of ids taken in ascending order of id.
NthByID(S, k) == CHOOSE x \in S : Cardinality({y \in S : IDLess(y, x)}) = k

\* The backend the hash of session s prefers among the set S of ids.
PreferredIn(S, s) == NthByID(S, hashSessionToIndex(s, Cardinality(S)))

\* The last call is a session lookup with a session id, for a model that
\* has registered backends.
SessionLookupDone ==
    /\ last.op = "LookupByModelWithSession"
    /\ last.session # <<>>
    /\ RegisteredFor(last.model) # {}

\* C1: every backend id in any model's sequence is a key of the backend
\* table, after any sequence of Register, Unregister, RefreshModels and
\* AllModels calls with any fetch outcomes.
C1_RegistrySoundness ==
    \A m \in DOMAIN models : Range(models[m]) \subseteq DOMAIN backends

\* An Unregister has removed a backend while the index still holds mappings.
C1_Witness ==
    /\ last.op = "Unregister"
    /\ last.existed
    /\ DOMAIN models # {}

\* C2: from the return of Unregister(id) until the next Register of id, no
\* lookup by model, by model and session, or by id returns the backend id.
C2_UnregisterCompleteness ==
    (IsLookup(last.op) /\ last.ok) => last.backend \notin unregistered

\* A lookup by id of an unregistered id finds nothing while a lookup of the
\* other backends still can.
C2_Witness ==
    /\ last.op = "LookupByID"
    /\ last.id \in unregistered
    /\ ~last.ok
    /\ DOMAIN models # {}

\* C3: after Register of an id that is already registered, with a fetch
\* that returns the model list L, the id is in the sequence of a model m
\* if and only if m is in L.
C3_ReRegisterPrunes ==
    (last.op = "Register" /\ last.existed /\ last.ok) =>
        \A m \in ModelIDs :
            last.id \in Range(BackendIDsOf(models, m)) <=> m \in Range(last.fetched)

\* C4: for a model with a non-empty id sequence, LookupByModel returns the
\* earliest backend of the sequence that is healthy, and the first backend
\* of the sequence when none is healthy.
C4_FirstHealthyLookup ==
    (last.op = "LookupByModel" /\ BackendIDsOf(models, last.model) # <<>>) =>
        LET ids == models[last.model]
        IN  /\ last.ok
            /\ \/ \E i \in 1..Len(ids) :
                     /\ last.backend = ids[i]
                     /\ backends[ids[i]].healthy
                     /\ \A j \in 1..(i - 1) : ~backends[ids[j]].healthy
               \/ /\ \A i \in 1..Len(ids) : ~backends[ids[i]].healthy
                  /\ last.backend = ids[1]

\* LookupByModel has skipped an unhealthy first backend.
C4_Witness ==
    /\ last.op = "LookupByModel"
    /\ last.ok
    /\ Len(BackendIDsOf(models, last.model)) >= 2
    /\ last.backend # models[last.model][1]

\* C5: with an empty session id LookupByModelWithSession returns exactly
\* what LookupByModel returns for the model, and SessionBroken is false.
C5_EmptySessionIsFirstHealthy ==
    (last.op = "LookupByModelWithSession" /\ last.session = <<>>) =>
        /\ LastResult = LookupByModel(backends, models, last.model)
        /\ ~last.broken

\* A lookup without session id has returned a backend of a model whose
\* backends are all unhealthy.
C5_Witness ==
    /\ last.op = "LookupByModelWithSession"
    /\ last.session = <<>>
    /\ last.ok
    /\ Cardinality(RegisteredFor(last.model)) >= 2
    /\ HealthyFor(last.model) = {}

\* C6: for a non-empty session id s and a model whose registered backends
\* in ascending id order are all[0..n-1], n >= 1, if all[fnv1a_32(s) mod n]
\* is healthy the lookup returns it with SessionBroken = false.
C6_PreferredHealthy ==
    SessionLookupDone =>
        LET preferred == PreferredIn(RegisteredFor(last.model), last.session)
        IN  backends[preferred].healthy =>
                LastResult = Found(preferred, FALSE)

\* The healthy preferred backend was returned although it is not the first
\* of the model's sequence and an unhealthy backend exists.
C6_Witness ==
    /\ SessionLookupDone
    /\ last.ok
    /\ ~last.broken
    /\ last.backend # models[last.model][1]
    /\ HealthyFor(last.model) # RegisteredFor(last.model)

\* C7: if the preferred backend of a non-empty session id is unhealthy and
\* the model has a healthy backend, the lookup returns
\* healthy[fnv1a_32(s) mod |healthy|], healthy in ascending id order: a
\* healthy backend other than the preferred one, with SessionBroken = true.
C7_FallbackToHealthy ==
    SessionLookupDone =>
        LET preferred == PreferredIn(RegisteredFor(last.model), last.session)
            healthy == HealthyFor(last.model)
        IN  (~backends[preferred].healthy /\ healthy # {}) =>
                /\ LastResult = Found(PreferredIn(healthy, last.session), TRUE)
                /\ backends[last.backend].healthy
                /\ last.backend # preferred

\* A fallback among two healthy backends that is not the first of them.
C7_Witness ==
    /\ SessionLookupDone
    /\ last.ok
    /\ last.broken
    /\ Cardinality(HealthyFor(last.model)) = 2
    /\ last.backend # NthByID(HealthyFor(last.model), 0)

\* C8: if a model has registered backends and all are unhealthy, a lookup
\* with a non-empty session id returns the backend the hash prefers among
\* all of them, with SessionBroken = true.
C8_AllUnhealthy ==
    (SessionLookupDone /\ HealthyFor(last.model) = {}) =>
        LastResult =
            Found(PreferredIn(RegisteredFor(last.model), last.session), TRUE)

\* With several backends, all unhealthy, the lookup returned one of them.
C8_Witness ==
    /\ SessionLookupDone
    /\ HealthyFor(last.model) = {}
    /\ Cardinality(RegisteredFor(last.model)) >= 2
    /\ last.ok
    /\ last.broken

\* C9: a lookup for a model without an entry in the model index returns
\* none from LookupByModel and from LookupByModelWithSession, whatever the
\* session id and whatever other models are served.
C9_ModelNotFound ==
    (last.op \in {"LookupByModel", "LookupByModelWithSession"}
        /\ last.model \notin DOMAIN models) => ~last.ok

\* A session lookup for an unknown model found nothing while backends
\* serve another model.
C9_Witness ==
    /\ last.op = "LookupByModelWithSession"
    /\ last.session # <<>>
    /\ last.model \notin DOMAIN models
    /\ DOMAIN models # {}
    /\ ~last.ok

\* C10: a session lookup repeated with the same model and non-empty session
\* id, while the backend table, the model index and the health bits stay as
\* they are, returns the same backend and the same SessionBroken.
C10_AffinityDeterminism ==
    [][(/\ last.op = "LookupByModelWithSession"
        /\ last.session # <<>>
        /\ last'.op = "LookupByModelWithSession"
        /\ last'.model = last.model
        /\ last'.session = last.session
        /\ backends' = backends
        /\ models' = models)
       => (/\ last'.ok = last.ok
           /\ last'.backend = last.backend
           /\ last'.broken = last.broken)]_vars

\* A session lookup that can be repeated has chosen among three backends.
C10_Witness ==
    /\ SessionLookupDone
    /\ last.ok
    /\ Cardinality(RegisteredFor(last.model)) = 3

\* The followed session is looked up again after its backend went down
\* and came back up.
HealedLookup ==
    /\ heal.phase = "up"
    /\ last.op = "LookupByModelWithSession"
    /\ last.model = heal.model
    /\ last.session = heal.session

C12_InsertionOrderIndependence ==
    SessionLookupDone =>
        \A q \in Rearrangements(BackendIDsOf(models, last.model)) :
            LookupByModelWithSession(backends, [models EXCEPT ![last.model] = q],
                                     last.model, last.session) = {LastResult}

\* A session lookup over three backends registered in descending id order,
\* one of them unhealthy, that did not return the first registered.
C12_Witness ==
    /\ SessionLookupDone
    /\ BackendIDsOf(models, last.model) = <<"c", "b", "a">>
    /\ Cardinality(HealthyFor(last.model)) = 2
    /\ last.backend # "c"

\* C19: HealthCheck sets the handle's health bit to the outcome of its
\* probe: true when the probe succeeded and HealthCheck returns nil, false
\* when it failed and HealthCheck returns the error.
C19_HealthCheckSetsBit ==
    last.op = "HealthCheck" => backends[last.id].healthy = last.ok

\* A health check has succeeded on one backend while another is unhealthy.
C19_Witness ==
    /\ last.op = "HealthCheck"
    /\ last.ok
    /\ backends[last.id].healthy
    /\ \E b \in DOMAIN backends : ~backends[b].healthy

\* C20: the health bit found under a backend id changes only in a
\* HealthCheck of that id, or because Register has put another handle under
\* the id; the other calls of a handle, failed or not, the other registry
\* operations and the lookups leave every health bit as it is.
C20_OnlyHealthCheckSetsHealth ==
    [][\A id \in DOMAIN backends \cap DOMAIN backends' :
          backends'[id].healthy # backends[id].healthy =>
              /\ last'.id = id
              /\ last'.op \in {"HealthCheck", "Register"}]_vars

\* A streaming call on a backend has failed and the backend is still
\* healthy.
C20_Witness ==
    /\ last.op = "ChatCompletionStream"
    /\ ~last.ok
    /\ backends[last.id].healthy

\* The payloads of the writes that reached the client, in order.
ClientSees ==
    LET arrived == SelectSeq(writes, LAMBDA w : w.ok)
    IN  [i \in 1..Len(arrived) |-> arrived[i].data]

\* The data payloads among them: all but terminators.
ClientData == SelectSeq(ClientSees, LAMBDA d : d # "[DONE]")

\* The stream call has returned a channel and the relay has opened the SSE
\* response.
StreamOpened == "sse headers" \in response

NoWriteFailed == \A i \in 1..Len(writes) : writes[i].ok

SomeWriteFailed == \E i \in 1..Len(writes) : ~writes[i].ok

\* C13: when the handler of an opened stream has returned and no write to
\* the client has failed, the client has seen exactly one [DONE]
\* terminator, and it is the last thing it has seen, however the upstream
\* ended.
C13_ExactlyOneTerminator ==
    (hpc = "returned" /\ StreamOpened /\ NoWriteFailed) =>
        /\ ClientSees # <<>>
        /\ \A i \in 1..Len(ClientSees) :
              ClientSees[i] = "[DONE]" <=> i = Len(ClientSees)

\* The termination protocol as far as the producer has come: at most one
\* event with done = true and nothing sent after it; the channel closed
\* only after that event; and once the producer has terminated, the channel
\* closed and the final event {data: "[DONE]", done} if the upstream sent
\* [DONE], {done} without data and error at EOF, and an event that carries
\* an error after a read error or a cancellation.
ProducerProtocol ==
    /\ \A i \in 1..Len(sent) : sent[i].done => i = Len(sent)
    /\ closed => (sent # <<>> /\ sent[Len(sent)].done)
    /\ ppc = "done" =>
          /\ closed
          /\ LET final == sent[Len(sent)]
             IN  /\ cause = "[DONE]" =>
                        final = [data |-> "[DONE]", done |-> TRUE, err |-> ""]
                 /\ cause = "EOF" =>
                        final = [data |-> "", done |-> TRUE, err |-> ""]
                 /\ cause \in {"error", "cancelled"} =>
                        (final.done /\ final.err # "" /\ final.data = "")
                 /\ cause \in {"[DONE]", "EOF", "error", "cancelled"}

\* C14: on every run the producer sends exactly one event with done = true,
\* as the last event, and closes the channel right after it; the final
\* event has the form that the end of the upstream calls for.
C14_ProducerProtocol ==
    /\ []ProducerProtocol
    /\ (ppc # "off") ~> (ppc = "done")

\* The upstream lines read so far that begin with "data: ", without the
\* [DONE] line.
DataLines ==
    SelectSeq(lines, LAMBDA l : l.lead = "" /\ l.field = "data: " /\ l.value # "[DONE]")

\* The upstream lines read so far that begin with "data: " once the white
\* space around them is gone, and whose payload is then neither empty nor
\* [DONE].
TrimmedDataLines ==
    SelectSeq(lines, LAMBDA l : l.field = "data: " /\ l.value \notin {"", "[DONE]"})

C16_ProducerTerminates ==
    (ppc # "off" /\ cancelled) ~> (ppc = "done" /\ closed /\ bodyClosed = 1)

\* The attempted data writes: all but terminators.
DataWrites(log) == SelectSeq(log, LAMBDA w : w.data # "[DONE]")

\* C17: once a write to the client has failed, the handler receives no
\* further event from the channel and attempts no further data write,
\* whatever is queued or produced later.
C17_StopsAfterWriteError ==
    [][SomeWriteFailed =>
          /\ Len(events') >= Len(events)
          /\ DataWrites(writes') = DataWrites(writes)]_vars

\* After a failed data write the handler has returned and has left a data
\* event in the channel.
C17_Witness ==
    /\ SomeWriteFailed
    /\ hpc = "returned"
    /\ \E i \in 1..Len(events) : events[i].data \notin {"", "[DONE]"}

\* C18: when the writer cannot flush, the backend's stream method is not
\* called, and when that method returns an error no producer runs; in both
\* cases the response is the 500 error alone: no SSE headers, no data
\* write, no [DONE], and no event is received.
C18_SetupFailuresBeforeSSE ==
    /\ (hpc # "idle" /\ ~flusher) =>
          (streamCalls = 0 /\ response = {"error 500"} /\ hpc = "returned")
    /\ (streamCalls > 0 /\ ppc = "off") =>
          (response = {"error 500"} /\ hpc = "returned")
    /\ "error 500" \in response =>
          (response = {"error 500"} /\ writes = <<>> /\ sent = <<>> /\ ppc = "off")

\* A handler whose writer cannot flush has answered 500.
C18_Witness ==
    /\ hpc = "returned"
    /\ ~flusher
    /\ response = {"error 500"}
    /\ streamCalls = 0

\* The models under which id is mapped in idx.
ModelsOf(idx, id) == {m \in DOMAIN idx : id \in Range(idx[m])}

\* C31: a Register of a backend that is registered, with the health bit it
\* has and a fetch that returns models it is already mapped under, as it is
\* after a first Register of the same backend, leaves the backend table and
\* the model index, order included, as they are.
C31_DuplicateRegister ==
    [][(/\ last.op = "none"
        /\ last'.op = "Register"
        /\ last'.ok
        /\ last'.existed
        /\ backends'[last'.id].healthy = backends[last'.id].healthy
        /\ Range(last'.fetched) \subseteq ModelsOf(models, last'.id)) =>
          /\ backends' = backends
          /\ models' = models]_vars

\* A registered backend has been registered again with both models, each of
\* which another backend serves too.
C31_Witness ==
    /\ last.op = "Register"
    /\ last.ok
    /\ last.existed
    /\ Range(last.fetched) = ModelIDs
    /\ \A m \in ModelIDs : m \in DOMAIN models /\ Len(models[m]) >= 2
                                              /\ models[m][1] = last.id

\* What AllModels is said to do, fetches[b] being what the Models call of
\* backend b returned: the list returned holds the models of the backends
\* that responded, once each; a backend that responded is mapped under the
\* models it reported and no other; the mappings of the others are as
\* before.
AllModelsAsStated(fetches, before, after, returned) ==
    /\ Range(returned) = UNION {Range(fetches[b].models) :
                                   b \in {x \in DOMAIN fetches : fetches[x].ok}}
    /\ \A i, j \in 1..Len(returned) : i # j => returned[i] # returned[j]
    /\ \A b \in DOMAIN fetches :
          IF fetches[b].ok
          THEN ModelsOf(after, b) = Range(fetches[b].models)
          ELSE ModelsOf(after, b) = ModelsOf(before, b)

\* C32: AllModels returns the union of the model lists of the backends that
\* responded, each model once, and leaves each of those backends mapped
\* under exactly the models it reported and the other backends' mappings
\* unchanged.
C32_AllModelsRefreshes ==
    [][(last.op = "none" /\ last'.op = "AllModels") =>
          \E fetches \in [DOMAIN backends -> FetchResults] :
              AllModelsAsStated(fetches, models, models', last'.fetched)]_vars

\* No id twice in a sequence, and no empty sequence.
WellFormedIndex(idx) ==
    \A m \in DOMAIN idx :
       /\ idx[m] # <<>>
       /\ \A i, j \in 1..Len(idx[m]) : i # j => idx[m][i] # idx[m][j]

\* C38: no model maps to an empty sequence and no id occurs twice in a
\* sequence, whatever the registry operations made; Unregister and
\* RefreshModels leave the other ids of each sequence in the order they
\* had.
C38_IndexWellFormed ==
    [][/\ WellFormedIndex(models')
       /\ (last.op = "none" /\ last'.op \in {"Unregister", "RefreshModels"}) =>
             \A m \in ModelIDs, x, y \in BackendIDs \ {last'.id} :
                LET before == BackendIDsOf(models, m)
                    after == BackendIDsOf(models', m)
                IN  /\ (x \in Range(after)) <=> (x \in Range(before))
                    /\ \A i, j \in 1..Len(before) :
                          (before[i] = x /\ before[j] = y /\ i < j) =>
                             \E k, l \in 1..Len(after) :
                                after[k] = x /\ after[l] = y /\ k < l]_vars

\* A backend in the middle of a sequence of three has been unregistered.
C38_Witness ==
    /\ last.op = "Unregister"
    /\ last.existed
    /\ \E m \in DOMAIN models :
          /\ Len(models[m]) = 2
          /\ IDLess(models[m][2], last.id)
          /\ IDLess(last.id, models[m][1])

\* The ids other than id in the sequence of model m.
OthersOf(idx, m, id) == SelectSeq(BackendIDsOf(idx, m), LAMBDA bid : bid # id)

\* C28: after a Register whose model fetch failed, the backend is in the
\* backend table and its id is in no model sequence, also when the id was
\* registered with models before.
C28_RegisterFetchFailure ==
    (last.op = "Register" /\ ~last.ok) =>
        /\ last.id \in DOMAIN backends
        /\ LookupByID(backends, last.id).ok
        /\ \A m \in ModelIDs : last.id \notin Range(BackendIDsOf(models, m))

\* C29: RefreshModels of a registered id leaves the id exactly in the
\* sequences of the models fetched, and in none when the fetch failed, in
\* which case it returns the error; the backend table is as before, and so
\* are the other ids of every sequence and their order.
C29_RefreshReplaces ==
    [][(last.op = "none" /\ last'.op = "RefreshModels" /\ last'.existed) =>
          /\ backends' = backends
          /\ last'.id \in DOMAIN backends'
          /\ \A m \in ModelIDs :
                /\ last'.id \in Range(BackendIDsOf(models', m))
                      <=> (last'.ok /\ m \in Range(last'.fetched))
                /\ OthersOf(models', m, last'.id) = OthersOf(models, m, last'.id)]_vars

\* A refresh has failed for a backend while another backend serves both
\* models.
C29_Witness ==
    /\ last.op = "RefreshModels"
    /\ last.existed
    /\ ~last.ok
    /\ \E b \in DOMAIN backends \ {last.id} :
          \A m \in ModelIDs : b \in Range(BackendIDsOf(models, m))

\* C30: Unregister of an id that is not in the backend table leaves the
\* table and the model index as they are; RefreshModels of such an id
\* returns an error and leaves them as they are.
C30_UnknownIdNoOp ==
    [][(last.op = "none" /\ last'.op \in {"Unregister", "RefreshModels"}
          /\ ~last'.existed) =>
          /\ backends' = backends
          /\ models' = models
          /\ ~last'.ok]_vars

\* An unknown id was unregistered while a model is served by exactly one
\* backend.
C30_Witness ==
    /\ last.op = "Unregister"
    /\ ~last.existed
    /\ \E m \in DOMAIN models : Len(models[m]) = 1

\* C21: a step of the health loop leaves the model index and the ids of the
\* backend table as they are; the tick takes the table's handles as its
\* snapshot and changes nothing else, and a probe is made on a handle of
\* the snapshot and changes no other handle.
C21_HealthLoopFrame ==
    [][/\ (hloop = "run" /\ hloop' = "tick") =>
             /\ hsnap' = DOMAIN backends
             /\ backends' = backends
             /\ models' = models
       /\ (hloop = "tick" /\ hsnap' # hsnap) =>
             /\ models' = models
             /\ DOMAIN backends' = DOMAIN backends
             /\ \E id \in hsnap :
                   /\ hsnap' = hsnap \ {id}
                   /\ \A x \in DOMAIN backends \ {id} : backends'[x] = backends[x]]_vars

\* The health loop is running, a probe has failed, and the backend is still
\* in the table and in the index.
C21_Witness ==
    /\ hloop = "run"
    /\ \E id \in DOMAIN backends :
          /\ ~backends[id].healthy
          /\ \E m \in DOMAIN models : id \in Range(models[m])

\* A Start call wins the compare-and-swap in this step.
StartWins == spc = "idle" /\ spc' = "derive"

\* A Stop call wins the compare-and-swap in this step.
StopWins == tpc = "idle" /\ tpc' = "wait"

\* A goroutine is launched in this step.
Launches ==
    \/ wg' > wg
    \/ \E d \in Discoverers : watcher[d] # "run" /\ watcher'[d] = "run"
    \/ hloop \notin {"run", "tick"} /\ hloop' = "run"

\* A context is cancelled in this step.
Cancels == ctxDone' # ctxDone

\* Start and Stop while their flag is already set: a Start call wins only
\* when the router is not running and a Stop call only when it is running;
\* no goroutine is launched but by a Start call that has won, no context is
\* cancelled but by the Stop call that wins, and the call that loses
\* returns nil and changes nothing.
IdempotentCalls ==
    /\ StartWins => ~started /\ started'
    /\ StopWins => started /\ ~started'
    /\ Launches => spc \in {"register", "health"}
    /\ Cancels => StopWins
    /\ (ret' # ret /\ ret' \in {"Start: no-op", "Stop: no-op"}) =>
          UNCHANGED <<regVars, started, gen, rcancel, ctxDone, wg, spc, sd, sfound,
                      tpc, watcher, wchan, wclosed, hloop, hsnap, hstale, dlog>>

\* C22, as stated: Start and Stop are idempotent, and goroutines are
\* launched only by the Start call that takes the router from Created to
\* Running, the first one to win.
C22_OnlyFirstStartLaunches ==
    [][IdempotentCalls /\ (Launches => gen = 1)]_vars

\* C22, amended: Start and Stop are idempotent; goroutines are launched only
\* by a Start call that has won the compare-and-swap on a router that was
\* not running, be it Created or Stopped, and contexts are cancelled only
\* by a Stop call that has won it on a running router.
C22_Idempotent ==
    [][IdempotentCalls]_vars

\* The router runs for the second time, after a Stop, and a further Start
\* call has returned without effect.
C22_Witness ==
    /\ gen = MaxStarts
    /\ started
    /\ hloop = "run"
    /\ ret = "Start: no-op"

\* C23: when the Stop call that has won the compare-and-swap returns nil,
\* the child context Start has derived is cancelled and every goroutine
\* launched has returned; it returns the caller's context error otherwise.
C23_StopWaitsForTasks ==
    [][(tpc = "wait" /\ tpc' = "idle") =>
          \/ /\ ret' = "Stop: nil"
             /\ gen > 0 => gen \in ctxDone
             /\ RunningTasks = {}
          \/ /\ ret' = "Stop: ctx.Err()"]_vars

\* What registry.Register, Unregister or RefreshModels makes of the table
\* and the index for event, fetch being what the Models call returns.
EventApplied(event, fetch) ==
    CASE event.type = EventAdded ->
            <<PutBackend(backends, event.id, TRUE),
              RegisterIndex(models, event.id, fetch)>>
      [] event.type = EventRemoved ->
            <<DeleteBackend(backends, event.id), PruneMappings(models, event.id)>>
      [] event.type = EventUpdated ->
            <<backends,
              IF event.id \in DOMAIN backends
              THEN RefreshIndex(models, event.id, fetch) ELSE models>>

\* C26: a watcher takes the events of its channel one at a time from the
\* head, the channel growing at its tail only, and the step that takes an
\* event makes of the registry what Register (added), Unregister (removed)
\* or RefreshModels (updated) makes of it for the event's backend.
C26_EventsInOrder ==
    [][\A d \in Discoverers :
          /\ Len(wchan'[d]) > Len(wchan[d]) =>
                \E e \in DiscoveryEvents : wchan'[d] = Append(wchan[d], e)
          /\ Len(wchan'[d]) < Len(wchan[d]) =>
                /\ wchan'[d] = Tail(wchan[d])
                /\ \E f \in RouterFetches :
                      <<backends', models'>> = EventApplied(Head(wchan[d]), f)]_vars

\* A removal has been applied, the backend has been registered again and
\* has its model refreshed away, while an event waits.
C26_Witness ==
    /\ watcher[DiscovererOrder[1]] = "run"
    /\ Len(wchan[DiscovererOrder[1]]) = 1
    /\ "a" \in DOMAIN backends
    /\ "a" \notin unregistered
    /\ "b" \in unregistered
    /\ \A m \in DOMAIN models : "a" \notin Range(models[m])

\* Start has returned and no later Start has begun.
StartReturned == spc = "idle" /\ hloop # "none"

C25_TasksTerminate ==
    /\ \A d \in Discoverers :
          /\ (watcher[d] = "run" /\ gen \in ctxDone) ~> (watcher[d] # "run")
          /\ (watcher[d] = "run" /\ wclosed[d]) ~> (watcher[d] # "run")
    /\ (hloop \in {"run", "tick"} /\ gen \in ctxDone) ~> (hloop \notin {"run", "tick"})

\* Stop has cancelled the context and has returned nil: the health loop
\* and a watcher have returned.
C25_Witness ==
    /\ gen \in ctxDone
    /\ ret = "Stop: nil"
    /\ hloop = "exit"
    /\ \E d \in Discoverers : watcher[d] = "exit" /\ ~wclosed[d]

(***************************************************************************)
(* The hash checked against a second computation of FNV-1a: the 32-bit     *)
(* state as four bytes, least significant first, and the product with the  *)
(* prime 0x01000193 (bytes 0x93, 0x01, 0x00, 0x01) by long multiplication. *)
(***************************************************************************)
RefRound(h, byte) ==
    LET x0 == Xor(h[1], byte, 8)
        r0 == x0 * 147
        r1 == (h[2] * 147) + x0 + (r0 \div 256)
        r2 == (h[3] * 147) + h[2] + (r1 \div 256)
        r3 == (h[4] * 147) + h[3] + x0 + (r2 \div 256)
    IN  <<r0 % 256, r1 % 256, r2 % 256, r3 % 256>>

RECURSIVE RefFnv(_, _)
\* The bytes of s folded from the first to the last, from state h.
RefFnv(h, s) == IF s = <<>> THEN h ELSE RefFnv(RefRound(h, Head(s)), Tail(s))

\* 0x811c9dc5 as bytes, least significant first.
RefOffset == <<197, 157, 28, 129>>

\* The four-byte value modulo count, by Horner's rule.
RefMod(h, count) ==
    (((((((h[4] % count) * 256) + h[3]) % count) * 256 + h[2]) % count) * 256 + h[1]) % count

RefIndex(s, count) == RefMod(RefFnv(RefOffset, s), count)

\* Known FNV-1a values: of "", of "a", and of "test-session-id" (0x52a36366).
HashSelfTest ==
    /\ Fnv1a32(<<>>) = [hi |-> 33052, lo |-> 40389]
    /\ Fnv1a32(<<97>>) = [hi |-> 58380, lo |-> 10540]
    /\ Fnv1a32(TestSessionID) = [hi |-> 21155, lo |-> 25446]
    /\ hashSessionToIndex(TestSessionID, 5) = 1
    /\ hashSessionToIndex(<<97, 98>>, 3) = 0
    /\ hashSessionToIndex(<<98, 97>>, 3) = 2
    /\ hashSessionToIndex(<<98, 98>>, 4) = 1

\* C37: hashSessionToIndex returns the 32-bit FNV-1a hash of the session
\* id's bytes modulo count: the index lies in [0, count), it is the one the
\* byte-wise computation of FNV-1a gives, the known values come out, and a
\* call with the same session id and count returns the same index again.
C37_HashIsFnv1aModCount ==
    [][last'.op = "hashSessionToIndex" =>
          /\ last'.index \in 0..(last'.count - 1)
          /\ last'.index = RefIndex(last'.session, last'.count)
          /\ HashSelfTest
          /\ (/\ last.op = "hashSessionToIndex"
              /\ last.session = last'.session
              /\ last.count = last'.count) => last'.index = last.index]_vars

\* "test-session-id" hashed among five backends, as the repository's test does.
C37_Witness ==
    /\ last.op = "hashSessionToIndex"
    /\ last.session = TestSessionID
    /\ last.count = 5
    /\ last.index = 1
\* The request gets its response in this step.
Answered == req.pc # "done" /\ req'.pc = "done"

\* C33: a request is answered 404 exactly when the model lookup returns none
\* and either no default backend id is configured or the lookup of that id
\* finds it missing from the table; when the model lookup returned none and
\* the default id is in the table, the request goes on to that backend,
\* whatever models it serves.
C33_RequestResolution ==
    [][/\ (Answered /\ req'.status = 404) <=>
            \/ /\ req.pc = "lookup"
               /\ req'.pc = "done"
               /\ ~req'.lookup.ok
               /\ defaultBackend = ""
            \/ /\ req.pc = "default"
               /\ req'.pc = "done"
               /\ ~req.lookup.ok
               /\ defaultBackend \notin DOMAIN backends
       /\ (req.pc = "lookup" /\ req'.pc # "lookup" /\ ~req'.lookup.ok /\ defaultBackend # "")
            => req'.pc = "default"
       /\ (req.pc = "default" /\ req'.pc # "default" /\ defaultBackend \in DOMAIN backends)
            => /\ ~req.lookup.ok
               /\ req'.pc = "header"
               /\ req'.backend = defaultBackend
       /\ req'.pc = "dispatch" => req'.backend \in
              (IF req'.lookup.ok THEN {req'.lookup.backend} ELSE {defaultBackend})]_vars

\* The request is about to go to the default backend, which serves no model,
\* the requested one included.
C33_Witness ==
    /\ req.pc = "dispatch"
    /\ ~req.lookup.ok
    /\ req.backend = defaultBackend
    /\ req.model = "m1"
    /\ \A m \in DOMAIN models : defaultBackend \notin Range(models[m])

\* C34: the response goes out with X-Session-Broken exactly when session
\* affinity is enabled and the request's session lookup returned
\* SessionBroken = true; the header is among those sent with the status,
\* ahead of the body, whichever body it is.
C34_SessionBrokenHeader ==
    [][Answered =>
          (SessionBrokenHeader \in req'.sent <=>
              /\ sessionAffinity
              /\ req'.looked = "LookupByModelWithSession"
              /\ req'.lookup.ok
              /\ req'.lookup.broken)]_vars

\* A stream has started for a request whose session lookup fell back.
C34_Witness ==
    /\ req.pc = "done"
    /\ req.body = "sse"
    /\ req.lookup.broken
    /\ req.session # <<>>
    /\ SessionBrokenHeader \in req.sent
\* The goroutine holds the read lock.
Reading(g) == calls[g].pc \in {"read", "first", "scan", "pick"}

\* The goroutine holds the write lock.
Writing(g) == calls[g].pc \in {"put", "fetch", "index", "delete", "prune", "check", "range"}

\* C36: a lookup, count or snapshot that runs while Register, Unregister,
\* RefreshModels or AllModels are called sees the table and the index with
\* no mutation under way: no id of a model's sequence is missing from the
\* table, and every backend of the table whose models were fetched is in
\* the sequence of each of them.
C36_ReadsSeeWholeMutations ==
    (\E g \in Goroutines : Reading(g)) =>
        /\ \A h \in Goroutines : ~Writing(h)
        /\ \A m \in DOMAIN models : Range(models[m]) \subseteq DOMAIN backends
        /\ \A id \in DOMAIN backends \cap DOMAIN fetchedOK :
              \A m \in Range(fetchedOK[id]) : id \in Range(BackendIDsOf(models, m))

\* A read looks at a table of two indexed backends while a mutation waits
\* for it to leave.
C36_Witness ==
    \E g, h \in Goroutines :
        /\ calls[g].pc = "read"
        /\ calls[h].pc = "drain"
        /\ DOMAIN fetchedOK = RequestBackends
        /\ DOMAIN backends = RequestBackends

\* C35: every registry call that has started returns, the Models calls
\* returning; and neither a Models call that returns nor a store of a health
\* bit touches the registry's lock.
C35_NoDeadlock ==
    /\ \A g \in Goroutines : (calls[g].pc # "idle") ~> (calls[g].pc = "idle")
    /\ [][(\/ \E g \in Goroutines : calls[g].pc = "fetch" /\ calls'[g].pc = "index"
           \/ \E id \in DOMAIN backends \cap DOMAIN backends' :
                 backends'[id].healthy # backends[id].healthy)
             => mu' = mu]_vars

\* A read is kept out while a Register waits for its backend's Models call.
C35_Witness ==
    \E g, h \in Goroutines :
        /\ calls[g].pc = "blocked"
        /\ calls[h].pc = "fetch"
        /\ calls[h].op = "Register"
\* The preferred backend of the session lookup g is in: the hash over the
\* backends it has collected, sorted by id.
PreferredOf(g) ==
    LET sa == CHOOSE q \in SortByID(calls[g].allBackends) : TRUE
    IN  sa[hashSessionToIndex(calls[g].session, Len(sa)) + 1]

\* The session lookup of g returns a backend in this step.
SessionReturned(g) ==
    /\ calls[g].pc = "pick"
    /\ calls'[g].pc = "idle"
    /\ last'.ok

\* C40: with health bits stored while a session lookup runs, a lookup that
\* returns SessionBroken = false returns the preferred backend, and one that
\* returns SessionBroken = true returns either another backend, one it has
\* seen healthy, or the preferred backend when it has seen no backend healthy.
C40_SessionLookupUnderFlips ==
    [][\A g \in Goroutines : SessionReturned(g) =>
          /\ ~last'.broken => last'.backend = PreferredOf(g)
          /\ last'.broken =>
                \/ /\ last'.backend # PreferredOf(g)
                   /\ last'.backend \in Range(calls[g].healthyBackends)
                \/ /\ last'.backend = PreferredOf(g)
                   /\ calls[g].healthyBackends = <<>>]_vars
\* C39: every task a Start launches is cancellable by a later Stop,
\* however the two calls interleave: once a Stop has returned nil and no
\* Start has won the compare-and-swap since that Stop's or returned since,
\* no health loop and no watch task is running.  (The model keeps one
\* health loop per derived context, so "at most one" is not what is checked.)
C39_NoTaskOutlivesStop ==
    (ret = "Stop: nil" /\ ~started /\ tpc = "idle") => RunningTasks = {}
=============================================================================
